---- MODULE Spec2Model ----
(***************************************************************************)
(* Model of the AutoML orchestration core of AutoML-Analytics-Platform:    *)
(*   backend/ml_engine/data_profiling.py       (DataProfilingEngine)       *)
(*   backend/ml_engine/dataset_intelligence.py (DatasetIntelligenceEngine) *)
(*   backend/ml_engine/automl_engine.py        (AutoMLEngine)              *)
(*                                                                         *)
(* A pandas Series is represented by the quantities the code reads from    *)
(* it (dtype, isnull().sum(), nunique(), ...).  Percentages and scores are *)
(* exact rationals, kept as integer numerators over a stated denominator.  *)
(* Model scores of the trainer are integers in units of 10^-5.             *)
(***************************************************************************)
EXTENDS Integers, Sequences, FiniteSets, TLC

VARIABLES
    df,            \* the table handed to the profiling / intelligence engines
    profile,       \* DatasetProfile returned by profile_dataset, or NoValue
    intel,         \* IntelligenceResult of analyze_dataset_intelligence, or NoValue
    role_calls,    \* what _classify_column_role returned, per column, in that call
    pc,            \* position of train_automl: idle / training / returned / raised
    problem_type,  \* problem_type argument of train_automl
    models_to_try, \* list returned by _select_models_for_problem
    idx,           \* index of the next candidate of the training loop
    model_results, \* list of ModelResult appended by the loop
    dropped,       \* candidates whose training raised (the printed warnings)
    result,        \* AutoMLResult returned by train_automl, or NoValue
    artifacts,     \* files written by _save_model (joblib.dump)
    error,         \* message of the exception train_automl raised, or NoValue
    pipeline,      \* PipelineConfiguration returned by select_pipeline, or NoValue
    req,           \* the POST /api/train request and the file it names
    rpc,           \* position of train_model: received / training / responded
    route_idx,     \* index of the next model of train_model's loop
    route_results, \* results list of train_model
    route_trained, \* trained_models list of train_model
    route_saved,   \* model packages train_model wrote with joblib.dump
    response,      \* the response of train_model, or NoValue
    clock,         \* datetime.now(), in whole seconds
    gov_db,        \* tables of the governance database (GovernanceTracker)
    lc,            \* per job: position and locals of _execute_training
    engine_runs,   \* per run: position and locals of train_automl up to _save_model
    models_dir,    \* files of AutoMLEngine.models_dir: path -> package
    profile_calls, \* DatasetProfiles returned by successive profile_dataset calls
    mgr,           \* the job manager in use: AsyncJobManager or AsyncMLTrainer
    jobs,          \* rows of ml_jobs / training_runs: status, progress, history
    job_queue,     \* rows of job_queue
    workers,       \* worker threads started by start_worker and their positions
    starters,      \* callers of start_worker and their positions
    running        \* the manager's running flag

vars == <<df, profile, intel, role_calls, pc, problem_type, models_to_try, idx,
          model_results, dropped, result, artifacts, error, pipeline, req, rpc,
          route_idx, route_results, route_trained, route_saved, response,
          clock, gov_db, lc, engine_runs, models_dir, profile_calls, mgr, jobs,
          job_queue, workers, starters, running>>

intelVars == <<df, profile, intel, role_calls>>
trainVars == <<pc, problem_type, models_to_try, idx, model_results, dropped,
               result, artifacts, error>>
pipeVars == <<pipeline>>
routeVars == <<req, rpc, route_idx, route_results, route_trained, route_saved, response>>
govVars == <<gov_db, lc>>
storeVars == <<engine_runs, models_dir>>
profVars == <<profile_calls>>
jobVars == <<mgr, jobs, job_queue, workers, starters, running>>
extVars == <<clock, govVars, storeVars, profVars, jobVars>>

\* None, where a record is expected
NoValue == [none |-> TRUE]

\* None, where a column name is expected (no name holds the character "None")
NoTarget == <<"None">>

\* None, where an error message is expected
NoError == "None"

(***************************************************************************)
(* Generic helpers                                                         *)
(***************************************************************************)
Min(a, b) == IF a <= b THEN a ELSE b

Max(a, b) == IF a >= b THEN a ELSE b

Abs(a) == IF a >= 0 THEN a ELSE -a

Range(s) == {s[i] : i \in DOMAIN s}

RECURSIVE SumSeq(_)
SumSeq(s) == IF s = <<>> THEN 0 ELSE Head(s) + SumSeq(Tail(s))

\* list.remove(x): deletes the first occurrence of x
RECURSIVE RemoveFirst(_, _)
RemoveFirst(s, x) ==
    IF s = <<>> THEN <<>>
    ELSE IF Head(s) = x THEN Tail(s)
         ELSE <<Head(s)>> \o RemoveFirst(Tail(s), x)

(***************************************************************************)
(* Column names are sequences of characters, so that the regular           *)
(* expressions of the intelligence engine are computed, not assumed.       *)
(***************************************************************************)
Lower(ch) ==
    CASE ch = "A" -> "a" [] ch = "B" -> "b" [] ch = "C" -> "c"
      [] ch = "D" -> "d" [] ch = "E" -> "e" [] ch = "I" -> "i"
      [] ch = "L" -> "l" [] ch = "T" -> "t"
      [] OTHER -> ch

\* str.lower()
LowerName(name) == [i \in DOMAIN name |-> Lower(name[i])]

HasPrefix(s, p) == Len(p) <= Len(s) /\ SubSeq(s, 1, Len(p)) = p

HasSuffix(s, p) == Len(p) <= Len(s) /\ SubSeq(s, Len(s) - Len(p) + 1, Len(s)) = p

Contains(s, p) ==
    \E i \in 1..(Len(s) - Len(p) + 1) : SubSeq(s, i, i + Len(p) - 1) = p

\* self.ID_PATTERNS = [r'id$', r'^id', r'_id$', r'key$', r'index$']
MatchesIdPattern(col_lower) ==
    \/ HasSuffix(col_lower, <<"i", "d">>)
    \/ HasPrefix(col_lower, <<"i", "d">>)
    \/ HasSuffix(col_lower, <<"_", "i", "d">>)
    \/ HasSuffix(col_lower, <<"k", "e", "y">>)
    \/ HasSuffix(col_lower, <<"i", "n", "d", "e", "x">>)

\* self.TARGET_PATTERNS = [r'target', r'label', r'class', r'outcome', r'result', r'prediction']
MatchesTargetPattern(col_lower) ==
    \/ Contains(col_lower, <<"t", "a", "r", "g", "e", "t">>)
    \/ Contains(col_lower, <<"l", "a", "b", "e", "l">>)
    \/ Contains(col_lower, <<"c", "l", "a", "s", "s">>)
    \/ Contains(col_lower, <<"o", "u", "t", "c", "o", "m", "e">>)
    \/ Contains(col_lower, <<"r", "e", "s", "u", "l", "t">>)
    \/ Contains(col_lower, <<"p", "r", "e", "d", "i", "c", "t", "i", "o", "n">>)

\* self.TIME_PATTERNS = [r'time', r'date', r'timestamp', r'created', r'updated']
MatchesTimePattern(col_lower) ==
    \/ Contains(col_lower, <<"t", "i", "m", "e">>)
    \/ Contains(col_lower, <<"d", "a", "t", "e">>)
    \/ Contains(col_lower, <<"t", "i", "m", "e", "s", "t", "a", "m", "p">>)
    \/ Contains(col_lower, <<"c", "r", "e", "a", "t", "e", "d">>)
    \/ Contains(col_lower, <<"u", "p", "d", "a", "t", "e", "d">>)

(***************************************************************************)
(* data_profiling.py: DataProfilingEngine                                  *)
(*                                                                         *)
(* A percentage p of the code is held as the integer p * Den(total_rows),  *)
(* where Den(n) = n for n > 0 and 1 for n = 0 (the code's "if total_rows   *)
(* > 0 else 0").  Column quality scores use the same denominator.          *)
(***************************************************************************)
HIGH_MISSING_THRESHOLD_PCT == 50

HIGH_CARDINALITY_THRESHOLD_PCT == 80

SKEWNESS_THRESHOLD == 2

Den(total_rows) == IF total_rows > 0 THEN total_rows ELSE 1

\* (count / total_rows) * 100 if total_rows > 0 else 0, times Den(total_rows)
Percentage(count, total_rows) == IF total_rows > 0 THEN 100 * count ELSE 0

\* pd.api.types.is_numeric_dtype
IsNumericDtype(dtype) == dtype \in {"bool", "int64", "float64"}

\* min(100, len(series)) of _is_datetime_column / _is_text_column
SampleSize(non_null) == Min(100, non_null)

\* datetime_matches / sample_size > 0.7
IsDatetimeColumn(s, non_null) ==
    10 * s.datetime_matches > 7 * SampleSize(non_null)

\* avg_length > 20 or avg_words > 3
IsTextColumn(s) == s.avg_length > 20 \/ s.avg_words > 3

\* DetectDataType without "if len(non_null_series) == 0: return UNKNOWN"
DetectDataType_NoEmptyCheck(s, total_rows) ==
    LET non_null == total_rows - s.missing
    IN  IF s.dtype = "bool" \/ s.in_bool_set THEN "boolean"
        ELSE IF IsNumericDtype(s.dtype) THEN "numerical"
        ELSE IF s.dtype = "datetime64[ns]" THEN "datetime"
        ELSE IF s.dtype = "object" THEN "categorical"
        ELSE "unknown"

DetectDataType(s, total_rows) ==
    LET non_null == total_rows - s.missing
    IN  IF non_null = 0 THEN "unknown"
        ELSE IF s.dtype = "bool" \/ s.in_bool_set THEN "boolean"
        ELSE IF IsNumericDtype(s.dtype) THEN "numerical"
        ELSE IF s.dtype = "datetime64[ns]" THEN "datetime"
        ELSE IF IsDatetimeColumn(s, non_null) THEN "datetime"
        ELSE IF 10 * s.nunique < non_null /\ s.nunique < 50 THEN "categorical"
        ELSE IF IsTextColumn(s) THEN "text"
        ELSE IF s.dtype = "object" THEN "categorical"
        ELSE "unknown"

\* the list profile.quality_issues, in the order the checks append to it
QualityIssues(data_type, missing_percentage, unique_count, unique_percentage, outlier_count, skewness, total_rows) ==
    LET den == Den(total_rows)
    IN  (IF missing_percentage > HIGH_MISSING_THRESHOLD_PCT * den
            THEN <<"high_missing_values">> ELSE <<>>)
     \o (IF unique_count <= 1 THEN <<"constant_column">> ELSE <<>>)
     \o (IF data_type = "categorical"
            /\ unique_percentage > HIGH_CARDINALITY_THRESHOLD_PCT * den
            THEN <<"high_cardinality">> ELSE <<>>)
     \o (IF data_type = "numerical" /\ outlier_count # 0
            /\ outlier_count > 0 /\ 100 * outlier_count > 5 * total_rows
            THEN <<"outliers_detected">> ELSE <<>>)
     \o (IF data_type = "numerical" /\ skewness # 0
            /\ Abs(skewness) > SKEWNESS_THRESHOLD
            THEN <<"skewed_distribution">> ELSE <<>>)

\* QualityScore without "if profile.unique_count <= 1: score = 0"
QualityScore_ConstantNotZeroed(missing_percentage, unique_count, n_issues, total_rows) ==
    LET den == Den(total_rows)
        score == 100 * den - Min(missing_percentage, 50 * den) - n_issues * 10 * den
    IN  Max(0, score)

\* score = 100 - min(missing%, 50) - 10 * len(issues); 0 if constant; max(0, score)
QualityScore(missing_percentage, unique_count, n_issues, total_rows) ==
    LET den == Den(total_rows)
        score == 100 * den - Min(missing_percentage, 50 * den) - n_issues * 10 * den
    IN  Max(0, IF unique_count <= 1 THEN 0 ELSE score)

ProfileColumn(s, total_rows) ==
    LET missing_percentage == Percentage(s.missing, total_rows)
        unique_percentage  == Percentage(s.nunique, total_rows)
        data_type == DetectDataType(s, total_rows)
        \* _analyze_numerical_column only runs for NUMERICAL with non-null values
        analysed == data_type = "numerical" /\ total_rows - s.missing > 0
        \* left None otherwise: None is written 0, both are falsy where the
        \* quality checks test "profile.outlier_count and ..." / "profile.skewness and ..."
        outlier_count == IF analysed THEN s.outliers ELSE 0
        skewness == IF analysed THEN s.skew ELSE 0
        issues == QualityIssues(data_type, missing_percentage, s.nunique,
                                unique_percentage, outlier_count, skewness, total_rows)
    IN  [name |-> s.name,
         data_type |-> data_type,
         pandas_dtype |-> s.dtype,
         missing_count |-> s.missing,
         missing_percentage |-> missing_percentage,
         unique_count |-> s.nunique,
         unique_percentage |-> unique_percentage,
         outlier_count |-> outlier_count,
         skewness |-> skewness,
         quality_issues |-> issues,
         quality_score |-> QualityScore(missing_percentage, s.nunique, Len(issues), total_rows)]

\* CalculateOverallQuality without the final max(0, min(100, ...))
CalculateOverallQuality_Unclamped(column_profiles, duplicate_percentage, total_rows) ==
    IF column_profiles = <<>> THEN 0
    ELSE LET den == Den(total_rows)
             k == Len(column_profiles)
             sum_scores == SumSeq([i \in DOMAIN column_profiles |->
                                      column_profiles[i].quality_score])
         IN  sum_scores - k * Min(duplicate_percentage, 20 * den)

\* overall score, as a numerator over Den(total_rows) * number of columns
\* (over 1 when there is no column)
CalculateOverallQuality(column_profiles, duplicate_percentage, total_rows) ==
    IF column_profiles = <<>> THEN 0
    ELSE LET den == Den(total_rows)
             k == Len(column_profiles)
             sum_scores == SumSeq([i \in DOMAIN column_profiles |->
                                      column_profiles[i].quality_score])
             duplicate_penalty == Min(duplicate_percentage, 20 * den)
             overall_score == sum_scores - k * duplicate_penalty
         IN  Max(0, Min(100 * den * k, overall_score))

IdentifyDatasetIssues(column_profiles, duplicate_percentage, total_rows) ==
    LET with_issues == Cardinality({i \in DOMAIN column_profiles :
                                       column_profiles[i].quality_issues # <<>>})
    IN  (IF duplicate_percentage > 10 * Den(total_rows)
            THEN <<"duplicate_rows">> ELSE <<>>)
     \o (IF 2 * with_issues > Len(column_profiles)
            THEN <<"inconsistent_format">> ELSE <<>>)

\* profile_dataset(df); column_profiles keeps the insertion order of the dict,
\* which is the column order of the table
ProfileDatasetOf(table) ==
    LET total_rows == table.total_rows
        duplicate_percentage == Percentage(table.duplicate_rows, total_rows)
        column_profiles == [i \in DOMAIN table.columns |->
                               ProfileColumn(table.columns[i], total_rows)]
    IN  [total_rows |-> total_rows,
         total_columns |-> Len(table.columns),
         duplicate_rows |-> table.duplicate_rows,
         duplicate_percentage |-> duplicate_percentage,
         column_profiles |-> column_profiles,
         overall_quality_score |->
             CalculateOverallQuality(column_profiles, duplicate_percentage, total_rows),
         quality_issues |->
             IdentifyDatasetIssues(column_profiles, duplicate_percentage, total_rows)]

(***************************************************************************)
(* dataset_intelligence.py: DatasetIntelligenceEngine                      *)
(***************************************************************************)
BINARY_THRESHOLD == 2

MULTICLASS_THRESHOLD == 20

\* ClassifyColumnRole with the target-name rule tried before the timestamp rules
ClassifyColumnRole_TargetBeforeTimestamp(col_name, p, total_rows) ==
    LET col_lower == LowerName(col_name)
        den == Den(total_rows)
    IN  IF MatchesIdPattern(col_lower) THEN "identifier"
        ELSE IF MatchesTargetPattern(col_lower) THEN "target"
        ELSE IF MatchesTimePattern(col_lower) THEN "timestamp"
        ELSE IF p.data_type = "datetime" THEN "timestamp"
        ELSE IF p.data_type = "text" THEN "text"
        ELSE IF p.unique_count <= 1 \/ p.missing_percentage > 90 * den THEN "ignore"
        ELSE IF p.unique_percentage > 95 * den /\ p.unique_count > 100 THEN "identifier"
        ELSE "feature"

ClassifyColumnRole(col_name, p, total_rows) ==
    LET col_lower == LowerName(col_name)
        den == Den(total_rows)
    IN  IF MatchesIdPattern(col_lower) THEN "identifier"
        ELSE IF MatchesTimePattern(col_lower) THEN "timestamp"
        ELSE IF p.data_type = "datetime" THEN "timestamp"
        ELSE IF MatchesTargetPattern(col_lower) THEN "target"
        ELSE IF p.data_type = "text" THEN "text"
        ELSE IF p.unique_count <= 1 \/ p.missing_percentage > 90 * den THEN "ignore"
        ELSE IF p.unique_percentage > 95 * den /\ p.unique_count > 100 THEN "identifier"
        ELSE "feature"

EmptyRoles ==
    [target |-> NoTarget, features |-> <<>>, identifiers |-> <<>>,
     timestamps |-> <<>>, text |-> <<>>, ignore |-> <<>>]

\* AssignRole where a later column of the target role replaces the target
AssignRole_LastTargetKept(roles, col_name, role) ==
    IF role = "target"
    THEN IF roles.target = NoTarget
         THEN [roles EXCEPT !.target = col_name]
         ELSE [roles EXCEPT !.features = Append(@, roles.target), !.target = col_name]
    ELSE IF role = "feature" THEN [roles EXCEPT !.features = Append(@, col_name)]
    ELSE IF role = "identifier" THEN [roles EXCEPT !.identifiers = Append(@, col_name)]
    ELSE IF role = "timestamp" THEN [roles EXCEPT !.timestamps = Append(@, col_name)]
    ELSE IF role = "text" THEN [roles EXCEPT !.text = Append(@, col_name)]
    ELSE IF role = "ignore" THEN [roles EXCEPT !.ignore = Append(@, col_name)]
    ELSE roles

\* one iteration of the loop of _analyze_column_roles
AssignRole(roles, col_name, role) ==
    IF role = "target"
    THEN IF roles.target = NoTarget
         THEN [roles EXCEPT !.target = col_name]
         ELSE [roles EXCEPT !.features = Append(@, col_name)]
    ELSE IF role = "feature" THEN [roles EXCEPT !.features = Append(@, col_name)]
    ELSE IF role = "identifier" THEN [roles EXCEPT !.identifiers = Append(@, col_name)]
    ELSE IF role = "timestamp" THEN [roles EXCEPT !.timestamps = Append(@, col_name)]
    ELSE IF role = "text" THEN [roles EXCEPT !.text = Append(@, col_name)]
    ELSE IF role = "ignore" THEN [roles EXCEPT !.ignore = Append(@, col_name)]
    ELSE roles

\* the loop of _analyze_column_roles over the first n columns
RECURSIVE RolesLoop(_, _, _)
RolesLoop(column_profiles, total_rows, n) ==
    IF n = 0 THEN EmptyRoles
    ELSE AssignRole(RolesLoop(column_profiles, total_rows, n - 1),
                    column_profiles[n].name,
                    ClassifyColumnRole(column_profiles[n].name, column_profiles[n],
                                       total_rows))

\* the calls role = self._classify_column_role(col_name, profile, df[col_name])
\* of that loop, as <<col_name, role>>
ClassifyCalls(column_profiles, total_rows) ==
    [i \in DOMAIN column_profiles |->
        <<column_profiles[i].name,
          ClassifyColumnRole(column_profiles[i].name, column_profiles[i], total_rows)>>]

\* list(df.columns).index(col_name), 0-based
ColumnPosition(column_profiles, col_name) ==
    (CHOOSE i \in DOMAIN column_profiles :
        /\ column_profiles[i].name = col_name
        /\ \A j \in 1..(i - 1) : column_profiles[j].name # col_name) - 1

ProfileNamed(column_profiles, col_name) ==
    column_profiles[ColumnPosition(column_profiles, col_name) + 1]

\* TargetScore without the bonus for the last three columns
TargetScore_NoPositionBonus(column_profiles, col_name, total_rows) ==
    LET p == ProfileNamed(column_profiles, col_name)
        den == Den(total_rows)
    IN  (IF 2 <= p.unique_count /\ p.unique_count <= 50 THEN 30 * 2 * den ELSE 0)
      + (IF p.data_type \in {"categorical", "boolean"} THEN 20 * 2 * den ELSE 0)
      - p.missing_percentage
      - (IF p.unique_count > 100 THEN 20 * 2 * den ELSE 0)

\* target-likelihood score of _infer_target_column, times 2 * Den(total_rows)
TargetScore(column_profiles, col_name, total_rows) ==
    LET p == ProfileNamed(column_profiles, col_name)
        den == Den(total_rows)
    IN  (IF 2 <= p.unique_count /\ p.unique_count <= 50 THEN 30 * 2 * den ELSE 0)
      + (IF p.data_type \in {"categorical", "boolean"} THEN 20 * 2 * den ELSE 0)
      + (IF ColumnPosition(column_profiles, col_name) >= Len(column_profiles) - 3
            THEN 15 * 2 * den ELSE 0)
      - p.missing_percentage
      - (IF p.unique_count > 100 THEN 20 * 2 * den ELSE 0)

\* max(target_scores, key=target_scores.get): the first key with the maximum
BestTarget(column_profiles, candidates, total_rows) ==
    LET sc(i) == TargetScore(column_profiles, candidates[i], total_rows)
        best == CHOOSE i \in DOMAIN candidates :
                    /\ \A j \in DOMAIN candidates : sc(j) <= sc(i)
                    /\ \A j \in 1..(i - 1) : sc(j) < sc(i)
    IN  candidates[best]

\* InferTargetColumn without roles['features'].remove(best_target)
InferTargetColumn_TargetLeftInFeatures(column_profiles, roles, total_rows) ==
    IF roles.features = <<>> THEN roles
    ELSE LET best_target == BestTarget(column_profiles, roles.features, total_rows)
         IN  IF TargetScore(column_profiles, best_target, total_rows)
                    > 20 * 2 * Den(total_rows)
             THEN [roles EXCEPT !.target = best_target]
             ELSE roles

\* InferTargetColumn taking the last feature candidate, whatever its score
InferTargetColumn_LastCandidate(column_profiles, roles, total_rows) ==
    IF roles.features = <<>> THEN roles
    ELSE LET best_target == roles.features[Len(roles.features)]
         IN  [roles EXCEPT !.features = RemoveFirst(@, best_target),
                           !.target = best_target]

\* _infer_target_column: the roles after the call, with the returned target set
InferTargetColumn(column_profiles, roles, total_rows) ==
    IF roles.features = <<>> THEN roles
    ELSE LET best_target == BestTarget(column_profiles, roles.features, total_rows)
         IN  IF TargetScore(column_profiles, best_target, total_rows)
                    > 20 * 2 * Den(total_rows)
             THEN [roles EXCEPT !.features = RemoveFirst(@, best_target),
                                !.target = best_target]
             ELSE roles

AnalyzeColumnRoles(column_profiles, total_rows) ==
    LET roles == RolesLoop(column_profiles, total_rows, Len(column_profiles))
    IN  IF roles.target = NoTarget
        THEN InferTargetColumn(column_profiles, roles, total_rows)
        ELSE roles

\* "not target_col": None and the empty string are both falsy
Falsy(target_col) == target_col = NoTarget \/ target_col = <<>>

\* DetermineProblemType with the text rule tried before the timestamp rule
DetermineProblemType_TextBeforeTimestamp(column_roles, column_profiles) ==
    IF Falsy(column_roles.target) THEN <<"exploratory", 60>>
    ELSE LET target_profile == ProfileNamed(column_profiles, column_roles.target)
         IN  IF target_profile.data_type = "text" \/ column_roles.text # <<>>
                  THEN <<"text_analytics", 70>>
             ELSE IF column_roles.timestamps # <<>> THEN <<"time_series", 80>>
             ELSE IF target_profile.data_type = "numerical"
                  THEN IF target_profile.unique_count <= BINARY_THRESHOLD
                       THEN <<"binary_classification", 90>>
                       ELSE IF target_profile.unique_count <= MULTICLASS_THRESHOLD
                            THEN <<"multiclass_classification", 80>>
                            ELSE <<"regression", 90>>
             ELSE IF target_profile.data_type \in {"categorical", "boolean"}
                  THEN IF target_profile.unique_count <= BINARY_THRESHOLD
                       THEN <<"binary_classification", 95>>
                       ELSE <<"multiclass_classification", 90>>
             ELSE <<"exploratory", 40>>

\* _determine_problem_type: <<problem type, confidence * 100>>
DetermineProblemType(column_roles, column_profiles) ==
    IF Falsy(column_roles.target) THEN <<"exploratory", 60>>
    ELSE LET target_profile == ProfileNamed(column_profiles, column_roles.target)
         IN  IF column_roles.timestamps # <<>> THEN <<"time_series", 80>>
             ELSE IF target_profile.data_type = "text" \/ column_roles.text # <<>>
                  THEN <<"text_analytics", 70>>
             ELSE IF target_profile.data_type = "numerical"
                  THEN IF target_profile.unique_count <= BINARY_THRESHOLD
                       THEN <<"binary_classification", 90>>
                       ELSE IF target_profile.unique_count <= MULTICLASS_THRESHOLD
                            THEN <<"multiclass_classification", 80>>
                            ELSE <<"regression", 90>>
             ELSE IF target_profile.data_type \in {"categorical", "boolean"}
                  THEN IF target_profile.unique_count <= BINARY_THRESHOLD
                       THEN <<"binary_classification", 95>>
                       ELSE <<"multiclass_classification", 90>>
             ELSE <<"exploratory", 40>>

\* analyze_dataset_intelligence(df)
AnalyzeDatasetIntelligenceOf(table) ==
    LET dataset_profile == ProfileDatasetOf(table)
        column_roles == AnalyzeColumnRoles(dataset_profile.column_profiles,
                                           table.total_rows)
        pt == DetermineProblemType(column_roles, dataset_profile.column_profiles)
    IN  [problem_type |-> pt[1],
         confidence_score |-> pt[2],
         target_column |-> column_roles.target,
         feature_columns |-> column_roles.features,
         timestamp_columns |-> column_roles.timestamps,
         identifier_columns |-> column_roles.identifiers,
         text_columns |-> column_roles.text,
         ignore_columns |-> column_roles.ignore]

(***************************************************************************)
(* automl_engine.py: AutoMLEngine                                          *)
(*                                                                         *)
(* Scores (mean and std of the cross-validation scores, test score) are    *)
(* integers in units of 10^-5: 0.85 is 85000.                              *)
(***************************************************************************)
ProblemTypes ==
    {"binary_classification", "multiclass_classification", "regression",
     "time_series", "text_analytics", "exploratory", "unsupervised"}

ClassificationTypes == {"binary_classification", "multiclass_classification"}

\* keys of self.classification_models
ClassificationModels ==
    {"LogisticRegression", "RandomForestClassifier", "GradientBoostingClassifier",
     "SVC", "GaussianNB"}

\* keys of self.regression_models
RegressionModels ==
    {"LinearRegression", "RandomForestRegressor", "GradientBoostingRegressor", "SVR"}

SelectModelsForProblem(pt) ==
    IF pt \in ClassificationTypes
    THEN <<"LogisticRegression", "RandomForestClassifier",
           "GradientBoostingClassifier", "SVC">>
    ELSE IF pt = "regression"
    THEN <<"LinearRegression", "RandomForestRegressor",
           "GradientBoostingRegressor", "SVR">>
    ELSE <<"RandomForestClassifier">>

\* the dictionary _train_single_model looks model_type up in
ModelConfigs(pt) ==
    IF pt \in ClassificationTypes THEN ClassificationModels ELSE RegressionModels

\* model_config = ...[model_type] raises KeyError for a model_type that is no key
ConfigLookupRaises(model_type, pt) == model_type \notin ModelConfigs(pt)

\* the key function of max() in _select_best_model
SelectionKey(x, pt) ==
    IF pt = "regression"
    THEN IF x.mean_cv_score > 0 THEN x.mean_cv_score ELSE -Abs(x.mean_cv_score)
    ELSE x.mean_cv_score

\* SelectBestModel keeping the last, not the first, element with the largest key
SelectBestModel_LastMaximum(results, pt) ==
    LET best == CHOOSE i \in DOMAIN results :
                    /\ \A j \in DOMAIN results :
                          SelectionKey(results[j], pt) <= SelectionKey(results[i], pt)
                    /\ \A j \in (i + 1)..Len(results) :
                          SelectionKey(results[j], pt) < SelectionKey(results[i], pt)
    IN  results[best]

\* max(model_results, key=...): the first element with the largest key
SelectBestModel(results, pt) ==
    LET best == CHOOSE i \in DOMAIN results :
                    /\ \A j \in DOMAIN results :
                          SelectionKey(results[j], pt) <= SelectionKey(results[i], pt)
                    /\ \A j \in 1..(i - 1) :
                          SelectionKey(results[j], pt) < SelectionKey(results[i], pt)
    IN  results[best]

\* round(x, 4): to the nearest multiple of 10^-4, a tie going to the even one
Round4(x) ==
    LET q == x \div 10
        r == x % 10
    IN  IF r < 5 THEN 10 * q
        ELSE IF r > 5 THEN 10 * (q + 1)
        ELSE IF q % 2 = 0 THEN 10 * q ELSE 10 * (q + 1)

\* the rows of _create_model_comparison before sort_values
ComparisonRows(results) ==
    [i \in DOMAIN results |->
        [Model |-> results[i].model_type,
         CV_Score_Mean |-> Round4(results[i].mean_cv_score),
         CV_Score_Std |-> Round4(results[i].std_cv_score),
         Test_Score |-> Round4(results[i].test_score)]]

\* SortedComparisons with sort_values(..., ascending=True)
SortedComparisons_Ascending(rows) ==
    {[i \in DOMAIN rows |-> rows[perm[i]]] :
        perm \in {perm \in [DOMAIN rows -> DOMAIN rows] :
                     /\ \A i, j \in DOMAIN rows : i # j => perm[i] # perm[j]
                     /\ \A i \in 1..(Len(rows) - 1) :
                           rows[perm[i]].CV_Score_Mean <= rows[perm[i + 1]].CV_Score_Mean}}

\* df.sort_values('CV_Score_Mean', ascending=False): the default sort is not
\* stable, so rows of equal CV_Score_Mean may come out in any order
SortedComparisons(rows) ==
    {[i \in DOMAIN rows |-> rows[perm[i]]] :
        perm \in {perm \in [DOMAIN rows -> DOMAIN rows] :
                     /\ \A i, j \in DOMAIN rows : i # j => perm[i] # perm[j]
                     /\ \A i \in 1..(Len(rows) - 1) :
                           rows[perm[i]].CV_Score_Mean >= rows[perm[i + 1]].CV_Score_Mean}}

MinMeanCv(results) ==
    CHOOSE m \in {results[i].mean_cv_score : i \in DOMAIN results} :
        \A i \in DOMAIN results : m <= results[i].mean_cv_score

\* DetermineConfidenceLevel with "std_cv_score <= 0.05" for High
DetermineConfidenceLevel_StdInclusive(best_model, all_models) ==
    LET performance_gap == best_model.mean_cv_score - MinMeanCv(all_models)
    IN  IF best_model.test_score > 85000 /\ best_model.std_cv_score <= 5000 THEN "High"
        ELSE IF best_model.test_score > 70000 /\ performance_gap > 5000 THEN "Medium"
        ELSE "Low"

DetermineConfidenceLevel(best_model, all_models) ==
    LET performance_gap == best_model.mean_cv_score - MinMeanCv(all_models)
    IN  IF best_model.test_score > 85000 /\ best_model.std_cv_score < 5000 THEN "High"
        ELSE IF best_model.test_score > 70000 /\ performance_gap > 5000 THEN "Medium"
        ELSE "Low"

\* the package _save_model dumps at os.path.join(models_dir, model_name + ".joblib")
ModelPackage(best_model, model_name) ==
    [path |-> model_name,
     model_type |-> best_model.model_type,
     cv_score |-> best_model.mean_cv_score,
     test_score |-> best_model.test_score]

(***************************************************************************)
(* Input tables.  A Series is the record of what the engines read from it: *)
(*   name, dtype, missing = isnull().sum(), nunique = nunique(),           *)
(*   in_bool_set = set(unique()) <= {0, 1, True, False, 'True', ...},      *)
(*   datetime_matches = sampled values matching a date pattern,            *)
(*   avg_length / avg_words = sampled mean string length / word count,     *)
(*   outliers = values with |z| > 3, skew = skew().                        *)
(* Fields a dtype never reaches carry one fixed value.                     *)
(***************************************************************************)
MaxCols == 4

NameId == <<"i", "d">>

NameDateId == <<"d", "a", "t", "e", "_", "i", "d">>

NameDate == <<"d", "a", "t", "e">>

NameClassDate == <<"c", "l", "a", "s", "s", "d", "a", "t", "e">>

NameLabel == <<"L", "a", "b", "e", "l">>

NameClass == <<"c", "l", "a", "s", "s">>

NameAge == <<"a", "g", "e">>

NameChurn == <<"c", "h", "u", "r", "n">>

\* names of the one-column tables: every way the three pattern lists overlap
Names == {NameId, NameDateId, NameDate, NameClassDate, NameLabel, NameAge}

\* names of the tables of several columns
TableNames == {NameDate, NameLabel, NameClass, NameAge, NameChurn}

RowCounts == {0, 4, 100, 200}

MissingCounts(n) ==
    {m \in {0, 1, n \div 2, n \div 2 + 1, (9 * n) \div 10, (9 * n) \div 10 + 1, n} :
        m <= n}

\* nunique() counts the distinct non-null values
UniqueCounts(n, m) ==
    {u \in {0, 1, 2, 3, 6, 20, 21, 50, 51, 100, 101, 190, 191, n} :
        u <= n - m /\ (u = 0 <=> m = n)}

\* <<missing, nunique>>
StatPairs(n) ==
    {mu \in MissingCounts(n) \X {0, 1, 2, 3, 6, 20, 21, 50, 51, 100, 101, 190, 191, n} :
        mu[2] \in UniqueCounts(n, mu[1])}

\* <<in_bool_set, outliers, skew>> of a float column with m missing and u
\* distinct values: {0.0, 1.0} lies inside the boolean set; |z| > 3 leaves fewer
\* than 1 value in 9 outside; a skew beyond 2 needs 10 values
FloatShapeOk(n, m, u, sh) ==
    IF sh[1] THEN u <= 2 /\ sh[2] = 0 /\ sh[3] = 0
    ELSE /\ u > 0
         /\ sh[2] > 0 => u >= 2 /\ 9 * sh[2] < n - m
         /\ sh[3] # 0 => u >= 2 /\ n - m >= 10

FloatShapes(n) == BOOLEAN \X {0, n \div 20, n \div 20 + 1} \X {-3, 0, 2, 3}

\* <<in_bool_set, datetime_matches, avg_length, avg_words>> of a column of
\* strings: the boolean words are at most 6 distinct short values; a date string
\* has 10 characters or more; 4 words take 7 characters or more; an empty
\* sample has no lengths
StringShapeOk(n, m, u, sh) ==
    IF u = 0 THEN sh = <<TRUE, 0, 0, 0>>
    ELSE IF sh[1] THEN u <= 6 /\ sh[2] = 0 /\ sh[3] = 5 /\ sh[4] = 1
    ELSE /\ sh[2] \in {0, (7 * SampleSize(n - m)) \div 10, SampleSize(n - m)}
         /\ <<sh[3], sh[4]>> \in {<<5, 1>>, <<20, 3>>, <<21, 1>>, <<20, 4>>}
         /\ sh[2] > 0 => sh[3] >= 10

StringShapes == BOOLEAN \X {0, 2, 4, 70, 100} \X {0, 5, 20, 21} \X {0, 1, 3, 4}

MkSeries(nm, dtype, m, u, b, d, len, words, o, k) ==
    [name |-> nm, dtype |-> dtype, missing |-> m, nunique |-> u, in_bool_set |-> b,
     datetime_matches |-> d, avg_length |-> len, avg_words |-> words,
     outliers |-> o, skew |-> k]

\* a bool column holds no missing value and at most two values
BoolSeries(names, n) ==
    {MkSeries(nm, "bool", 0, mu[2], TRUE, 0, 5, 1, 0, 0) :
        nm \in names, mu \in {mu \in StatPairs(n) : mu[1] = 0 /\ mu[2] <= 2}}

FloatSeries(names, n) ==
    {MkSeries(x[1], "float64", x[2][1], x[2][2], x[3][1], 0, 5, 1, x[3][2], x[3][3]) :
        x \in {x \in names \X StatPairs(n) \X FloatShapes(n) :
                  FloatShapeOk(n, x[2][1], x[2][2], x[3])}}

DatetimeSeries(names, n) ==
    {MkSeries(nm, "datetime64[ns]", mu[1], mu[2], mu[2] = 0,
              SampleSize(n - mu[1]), 19, 2, 0, 0) :
        nm \in names, mu \in StatPairs(n)}

StringSeries(names, n) ==
    {MkSeries(x[1], x[2], x[3][1], x[3][2], x[4][1], x[4][2], x[4][3], x[4][4], 0, 0) :
        x \in {x \in names \X {"object", "category"} \X StatPairs(n) \X StringShapes :
                  StringShapeOk(n, x[3][1], x[3][2], x[4])}}

DtypeKinds == {"bool", "float", "datetime", "string"}

\* every Series of n rows over the given names, by kind of dtype
SeriesOver(kind, names, n) ==
    CASE kind = "bool" -> BoolSeries(names, n)
      [] kind = "float" -> FloatSeries(names, n)
      [] kind = "datetime" -> DatetimeSeries(names, n)
      [] kind = "string" -> StringSeries(names, n)

\* number of distinct values a column shows to df.duplicated(): NaN counts as one
DistinctCells(s) == s.nunique + (IF s.missing > 0 THEN 1 ELSE 0)

\* the product of the distinct cells of the columns, capped; by halves
RECURSIVE ProductUpTo(_, _)
ProductUpTo(cols, cap) ==
    IF cols = <<>> THEN 1
    ELSE IF Len(cols) = 1 THEN Min(cap, DistinctCells(cols[1]))
    ELSE LET half == Len(cols) \div 2
         IN  Min(cap, ProductUpTo(SubSeq(cols, 1, half), cap) * ProductUpTo(SubSeq(cols, half + 1, Len(cols)), cap))

\* df.duplicated().sum() = rows - distinct rows, for columns that vary
\* independently: every combination of cells occurs, up to the number of rows
DuplicateRows(cols, n) ==
    IF n = 0 \/ cols = <<>> THEN 0 ELSE n - ProductUpTo(cols, n)

MkTable(n, d, cols) == [total_rows |-> n, duplicate_rows |-> d, columns |-> cols]

\* the tables of one column: every Series over Names
OneColumnTables(kind, n) ==
    {MkTable(n, n - DistinctCells(s), <<s>>) : s \in SeriesOver(kind, Names, n)}

TableRows == 200

\* <<dtype, missing, nunique, in_bool_set, avg_length, avg_words>> of the
\* columns of the tables of k columns; none matches a date pattern
TableKinds(k) ==
    {<<"float64", 0, 2, FALSE, 5, 1>>,       \* two numeric values
     <<"float64", 101, 21, FALSE, 5, 1>>,    \* numeric, more than half missing
     <<"object", 0, 3, FALSE, 5, 1>>}        \* three short strings
    \cup (IF k > 3 THEN {}
          ELSE {<<"object", 0, 50, FALSE, 21, 1>>,   \* free text
                <<"float64", 0, 1, FALSE, 5, 1>>,    \* one repeated number
                <<"object", 200, 0, TRUE, 0, 0>>})   \* all missing

TableSeries(k) ==
    {MkSeries(nm, x[1], x[2], x[3], x[4], 0, x[5], x[6], 0, 0) :
        nm \in TableNames, x \in TableKinds(k)}

DistinctNames(cols) ==
    \A i, j \in DOMAIN cols : i # j => cols[i].name # cols[j].name

\* the lists of k columns with pairwise distinct names
ColumnLists(k) == {cols \in [1..k -> TableSeries(k)] : DistinctNames(cols)}

TablesOf(k) ==
    {MkTable(TableRows, DuplicateRows(cols, TableRows), cols) : cols \in ColumnLists(k)}

\* the tables the engines are given
InputTable(t) ==
    \/ t \in {MkTable(0, 0, <<>>), MkTable(TableRows, 0, <<>>)}
    \/ \E kind \in DtypeKinds, n \in RowCounts : t \in OneColumnTables(kind, n)
    \/ \E k \in 2..MaxCols : t \in TablesOf(k)

(***************************************************************************)
(* The engines as operations on the table                                  *)
(***************************************************************************)
\* no GovernanceTracker call and no lifecycle job
GovIdle ==
    /\ gov_db = [datasets |-> <<>>, training_runs |-> <<>>, decisions |-> <<>>, models |-> <<>>, predictions |-> <<>>]
    /\ lc = <<>>

\* no concurrent train_automl runs, an empty models directory
StoreIdle == engine_runs = <<>> /\ models_dir = <<>>

\* no repeated profile_dataset calls
ProfIdle == profile_calls = <<>>

\* no job manager constructed
JobIdle ==
    /\ mgr = "None" /\ jobs = <<>> /\ job_queue = {} /\ workers = <<>>
    /\ starters = <<>> /\ running = FALSE

ExtIdle == clock = 0 /\ GovIdle /\ StoreIdle /\ ProfIdle /\ JobIdle

\* select_pipeline not called
PipelineIdle == pipeline = NoValue

\* no request to POST /api/train
RouteIdle ==
    /\ req = NoValue /\ rpc = "idle" /\ route_idx = 0 /\ route_results = <<>>
    /\ route_trained = <<>> /\ route_saved = {} /\ response = NoValue

TrainIdle ==
    /\ pc = "idle" /\ problem_type = "exploratory" /\ models_to_try = <<>> /\ idx = 0
    /\ model_results = <<>> /\ dropped = <<>> /\ result = NoValue
    /\ artifacts = {} /\ error = NoError

InitIntel ==
    /\ InputTable(df)
    /\ profile = NoValue
    /\ intel = NoValue
    /\ role_calls = <<>>
    /\ TrainIdle
    /\ PipelineIdle
    /\ RouteIdle
    /\ ExtIdle

\* DataProfilingEngine().profile_dataset(df)
ProfileDataset ==
    /\ profile = NoValue
    /\ profile' = ProfileDatasetOf(df)
    /\ UNCHANGED <<df, intel, role_calls>>
    /\ UNCHANGED trainVars
    /\ UNCHANGED <<pipeVars, routeVars, extVars>>

\* DatasetIntelligenceEngine().analyze_dataset_intelligence(df)
AnalyzeDatasetIntelligence ==
    /\ intel = NoValue
    /\ intel' = AnalyzeDatasetIntelligenceOf(df)
    /\ role_calls' = ClassifyCalls(ProfileDatasetOf(df).column_profiles, df.total_rows)
    /\ UNCHANGED <<df, profile>>
    /\ UNCHANGED trainVars
    /\ UNCHANGED <<pipeVars, routeVars, extVars>>

NextIntel == ProfileDataset \/ AnalyzeDatasetIntelligence

SpecIntel == InitIntel /\ [][NextIntel]_vars

(***************************************************************************)
(* Scenario tables: a column named "churn" of two distinct values among    *)
(* eight numeric columns f1..f8, in every column order.                    *)
(***************************************************************************)
ScenarioRows == 500

OtherColumns == 8

\* how many of the eight numeric columns may differ in kind from the rest
MaxOddColumns == 1

DigitName(i) ==
    <<"f", CASE i = 1 -> "1" [] i = 2 -> "2" [] i = 3 -> "3" [] i = 4 -> "4"
             [] i = 5 -> "5" [] i = 6 -> "6" [] i = 7 -> "7" [] i = 8 -> "8"
             [] OTHER -> "9">>

\* <<dtype, missing, nunique, in_bool_set>> of the churn column: True/False;
\* the numbers 1 and 2; two short strings; 0.0/1.0 with half of the rows missing
ChurnKinds ==
    {<<"bool", 0, 2, TRUE>>,
     <<"float64", 0, 2, FALSE>>,
     <<"object", 0, 2, FALSE>>,
     <<"float64", ScenarioRows \div 2, 2, TRUE>>}

\* <<missing, nunique, in_bool_set>> of a numeric column: a 0/1 indicator, a
\* measure of 60 values, a measure that differs in every row
NumericKinds == {<<0, 2, TRUE>>, <<0, 60, FALSE>>, <<0, ScenarioRows, FALSE>>}

NumericKindLists ==
    {ks \in [1..OtherColumns -> NumericKinds] :
        \E base \in NumericKinds :
            Cardinality({i \in 1..OtherColumns : ks[i] # base}) <= MaxOddColumns}

ChurnSeries(c) == MkSeries(NameChurn, c[1], c[2], c[3], c[4], 0, 5, 1, 0, 0)

NumericSeries(i, x) == MkSeries(DigitName(i), "float64", x[1], x[2], x[3], 0, 5, 1, 0, 0)

\* the churn column at position pos, f1..f8 around it in their order
ScenarioColumns(c, pos, ks) ==
    [i \in 1..(OtherColumns + 1) |->
        IF i < pos THEN NumericSeries(i, ks[i])
        ELSE IF i = pos THEN ChurnSeries(c)
        ELSE NumericSeries(i - 1, ks[i - 1])]

ScenarioTables ==
    {MkTable(ScenarioRows, DuplicateRows(ScenarioColumns(x[1], x[2], x[3]), ScenarioRows),
             ScenarioColumns(x[1], x[2], x[3])) :
        x \in ChurnKinds \X (1..(OtherColumns + 1)) \X NumericKindLists}

InitScenario ==
    /\ df \in ScenarioTables
    /\ profile = NoValue
    /\ intel = NoValue
    /\ role_calls = <<>>
    /\ TrainIdle
    /\ PipelineIdle
    /\ RouteIdle
    /\ ExtIdle

SpecScenario == InitScenario /\ [][NextIntel]_vars

(***************************************************************************)
(* AutoMLEngine.train_automl(X, y, problem_type, pipeline_config)          *)
(*                                                                         *)
(* What scikit-learn returns for one candidate is an input: the candidate  *)
(* either raises or yields the mean and the standard deviation of its      *)
(* cross-validation scores and its test score.                             *)
(***************************************************************************)
\* roc_auc / accuracy means of a classification candidate
ClassificationMeans == {80000, 85000, 85004}

\* neg_mean_squared_error means of a regression candidate
RegressionMeans == {-10004, -10000, -5000}

CvMeans(pt) == IF pt = "regression" THEN RegressionMeans ELSE ClassificationMeans

\* <<std of the cross-validation scores, test score>>
StdAndTest == {<<4000, 85001>>, <<5000, 85001>>, <<4000, 85000>>, <<4000, 70000>>}

MkModelResult(model_type, mean, std, test) ==
    [model_type |-> model_type, mean_cv_score |-> mean,
     std_cv_score |-> std, test_score |-> test]

DefaultModelName == "automl_model"

InitTrain ==
    /\ df = MkTable(0, 0, <<>>)
    /\ profile = NoValue
    /\ intel = NoValue
    /\ role_calls = <<>>
    /\ pc = "idle"
    /\ problem_type \in ProblemTypes
    /\ models_to_try = <<>>
    /\ idx = 0
    /\ model_results = <<>>
    /\ dropped = <<>>
    /\ result = NoValue
    /\ artifacts = {}
    /\ error = NoError
    /\ PipelineIdle
    /\ RouteIdle
    /\ ExtIdle

\* fit_transform, train_test_split and _select_models_for_problem
PrepareData ==
    /\ pc = "idle"
    /\ models_to_try' = SelectModelsForProblem(problem_type)
    /\ idx' = 1
    /\ pc' = "training"
    /\ UNCHANGED <<problem_type, model_results, dropped, result, artifacts, error>>
    /\ UNCHANGED intelVars
    /\ UNCHANGED <<pipeVars, routeVars, extVars>>

\* fit_transform or train_test_split raises: nothing catches it
PrepareDataRaises ==
    /\ pc = "idle"
    /\ pc' = "raised"
    /\ error' = "preprocessing failed"
    /\ UNCHANGED <<problem_type, models_to_try, idx, model_results, dropped, result,
                   artifacts>>
    /\ UNCHANGED intelVars
    /\ UNCHANGED <<pipeVars, routeVars, extVars>>

\* one pass of the loop whose _train_single_model returns a ModelResult
TrainCandidateSucceeds ==
    /\ pc = "training"
    /\ idx <= Len(models_to_try)
    /\ ~ConfigLookupRaises(models_to_try[idx], problem_type)
    /\ \E mean \in CvMeans(problem_type), st \in StdAndTest :
          model_results' = Append(model_results,
                                  MkModelResult(models_to_try[idx], mean, st[1], st[2]))
    /\ idx' = idx + 1
    /\ UNCHANGED <<pc, problem_type, models_to_try, dropped, result, artifacts, error>>
    /\ UNCHANGED intelVars
    /\ UNCHANGED <<pipeVars, routeVars, extVars>>

\* TrainCandidateFails without the try/except: the exception leaves train_automl
TrainCandidateFails_Propagates ==
    /\ pc = "training"
    /\ idx <= Len(models_to_try)
    /\ dropped' = Append(dropped, models_to_try[idx])
    /\ idx' = idx + 1
    /\ pc' = "raised"
    /\ error' = "training failed"
    /\ UNCHANGED <<problem_type, models_to_try, model_results, result, artifacts>>
    /\ UNCHANGED intelVars
    /\ UNCHANGED <<pipeVars, routeVars, extVars>>

\* one pass of the loop whose _train_single_model raises: except ... continue
TrainCandidateFails ==
    /\ pc = "training"
    /\ idx <= Len(models_to_try)
    /\ dropped' = Append(dropped, models_to_try[idx])
    /\ idx' = idx + 1
    /\ UNCHANGED <<pc, problem_type, models_to_try, model_results, result, artifacts,
                   error>>
    /\ UNCHANGED intelVars
    /\ UNCHANGED <<pipeVars, routeVars, extVars>>

\* RaiseNoModels without the check: an AutoMLResult with no model is returned
RaiseNoModels_ReturnsEmptyResult ==
    /\ pc = "training"
    /\ idx > Len(models_to_try)
    /\ model_results = <<>>
    /\ pc' = "returned"
    /\ result' = [problem_type |-> problem_type,
                  best_model |-> NoValue,
                  all_models |-> model_results,
                  model_comparison |-> <<>>,
                  model_save_path |-> DefaultModelName,
                  confidence_level |-> "Low"]
    /\ UNCHANGED <<problem_type, models_to_try, idx, model_results, dropped, artifacts,
                   error>>
    /\ UNCHANGED intelVars
    /\ UNCHANGED <<pipeVars, routeVars, extVars>>

\* if not model_results: raise Exception(...)
RaiseNoModels ==
    /\ pc = "training"
    /\ idx > Len(models_to_try)
    /\ model_results = <<>>
    /\ pc' = "raised"
    /\ error' = "No models could be trained successfully"
    /\ UNCHANGED <<problem_type, models_to_try, idx, model_results, dropped, result,
                   artifacts>>
    /\ UNCHANGED intelVars
    /\ UNCHANGED <<pipeVars, routeVars, extVars>>

\* _select_best_model, _create_model_comparison, _save_model, return AutoMLResult
ReturnResult ==
    /\ pc = "training"
    /\ idx > Len(models_to_try)
    /\ model_results # <<>>
    /\ LET best_model == SelectBestModel(model_results, problem_type)
       IN  /\ \E model_comparison \in SortedComparisons(ComparisonRows(model_results)) :
                 result' = [problem_type |-> problem_type,
                            best_model |-> best_model,
                            all_models |-> model_results,
                            model_comparison |-> model_comparison,
                            model_save_path |-> DefaultModelName,
                            confidence_level |->
                                DetermineConfidenceLevel(best_model, model_results)]
           /\ artifacts' = artifacts \cup {ModelPackage(best_model, DefaultModelName)}
    /\ pc' = "returned"
    /\ UNCHANGED <<problem_type, models_to_try, idx, model_results, dropped, error>>
    /\ UNCHANGED intelVars
    /\ UNCHANGED <<pipeVars, routeVars, extVars>>

NextTrain ==
    \/ PrepareData
    \/ PrepareDataRaises
    \/ TrainCandidateSucceeds
    \/ TrainCandidateFails
    \/ RaiseNoModels
    \/ ReturnResult

SpecTrain == InitTrain /\ [][NextTrain]_vars

(***************************************************************************)
(* pipeline_selector.py: AutoPipelineSelector                              *)
(*                                                                         *)
(* dataset_profile.overall_quality_score is held as the integer            *)
(* score * QualityScale(dataset_profile), the denominator of the mean of   *)
(* the column scores.  A sklearn Pipeline is the list of its steps, each   *)
(* <<name, transformer>>.  feature_selection_k is 0 where the code leaves  *)
(* it None.                                                                *)
(***************************************************************************)
QualityScale(dataset_profile) ==
    Den(dataset_profile.total_rows) * Max(1, Len(dataset_profile.column_profiles))

\* self.strategy_configs[strategy].copy()
StrategyConfigs(strategy) ==
    CASE strategy = "minimal" ->
            [numerical_imputation |-> "median", categorical_imputation |-> "mode",
             scaling |-> "none", encoding |-> "label",
             feature_selection |-> FALSE, feature_selection_k |-> 0,
             outlier_handling |-> FALSE]
      [] strategy = "standard" ->
            [numerical_imputation |-> "mean", categorical_imputation |-> "mode",
             scaling |-> "standard", encoding |-> "onehot",
             feature_selection |-> FALSE, feature_selection_k |-> 0,
             outlier_handling |-> FALSE]
      [] strategy = "robust" ->
            [numerical_imputation |-> "median", categorical_imputation |-> "mode",
             scaling |-> "robust", encoding |-> "onehot",
             feature_selection |-> TRUE, feature_selection_k |-> 0,
             outlier_handling |-> TRUE]
      [] strategy = "advanced" ->
            [numerical_imputation |-> "knn", categorical_imputation |-> "mode",
             scaling |-> "robust", encoding |-> "target",
             feature_selection |-> TRUE, feature_selection_k |-> 0,
             outlier_handling |-> TRUE]

\* DetermineStrategy with the robust rule tried before the standard rule
DetermineStrategy_RobustBeforeStandard(column_profiles, dataset_profile) ==
    LET den == Den(dataset_profile.total_rows)
        scale == QualityScale(dataset_profile)
        total_issues == SumSeq([i \in DOMAIN column_profiles |->
                                   Len(column_profiles[i].quality_issues)])
        quality_score == dataset_profile.overall_quality_score
        high_missing_cols == Cardinality({i \in DOMAIN column_profiles :
                                column_profiles[i].missing_percentage > 20 * den})
        is_wide_dataset == dataset_profile.total_columns > 50
    IN  IF quality_score >= 90 * scale /\ total_issues = 0 THEN "minimal"
        ELSE IF quality_score >= 50 * scale \/ high_missing_cols > 0 \/ is_wide_dataset
             THEN "robust"
        ELSE IF quality_score >= 70 * scale /\ high_missing_cols = 0 /\ ~is_wide_dataset
             THEN "standard"
        ELSE "advanced"

\* _determine_strategy(problem_type, column_profiles, dataset_profile)
DetermineStrategy(column_profiles, dataset_profile) ==
    LET den == Den(dataset_profile.total_rows)
        scale == QualityScale(dataset_profile)
        total_issues == SumSeq([i \in DOMAIN column_profiles |->
                                   Len(column_profiles[i].quality_issues)])
        quality_score == dataset_profile.overall_quality_score
        high_missing_cols == Cardinality({i \in DOMAIN column_profiles :
                                column_profiles[i].missing_percentage > 20 * den})
        is_wide_dataset == dataset_profile.total_columns > 50
    IN  IF quality_score >= 90 * scale /\ total_issues = 0 THEN "minimal"
        ELSE IF quality_score >= 70 * scale /\ high_missing_cols = 0 /\ ~is_wide_dataset
             THEN "standard"
        ELSE IF quality_score >= 50 * scale \/ high_missing_cols > 0 \/ is_wide_dataset
             THEN "robust"
        ELSE "advanced"

\* CustomizeConfiguration without the scaling adjustment for classification
CustomizeConfiguration_NoForcedScaling(config, pt, column_profiles, dataset_profile) ==
    LET den == Den(dataset_profile.total_rows)
        high_missing_numerical ==
            {i \in DOMAIN column_profiles :
                /\ column_profiles[i].data_type = "numerical"
                /\ column_profiles[i].missing_percentage > 30 * den}
        high_cardinality_cats ==
            {i \in DOMAIN column_profiles :
                /\ column_profiles[i].data_type = "categorical"
                /\ column_profiles[i].unique_count > 10}
        c1 == IF high_missing_numerical # {} /\ dataset_profile.total_rows > 1000
              THEN [config EXCEPT !.numerical_imputation = "knn"] ELSE config
        c3 == IF high_cardinality_cats # {} /\ c1.encoding = "onehot"
              THEN [c1 EXCEPT !.encoding = "target"] ELSE c1
    IN  IF dataset_profile.total_columns > 20
        THEN [c3 EXCEPT !.feature_selection = TRUE,
                        !.feature_selection_k = Min(15, dataset_profile.total_columns - 1)]
        ELSE c3

\* _customize_configuration(config, problem_type, column_profiles, dataset_profile)
CustomizeConfiguration(config, pt, column_profiles, dataset_profile) ==
    LET den == Den(dataset_profile.total_rows)
        high_missing_numerical ==
            {i \in DOMAIN column_profiles :
                /\ column_profiles[i].data_type = "numerical"
                /\ column_profiles[i].missing_percentage > 30 * den}
        high_cardinality_cats ==
            {i \in DOMAIN column_profiles :
                /\ column_profiles[i].data_type = "categorical"
                /\ column_profiles[i].unique_count > 10}
        c1 == IF high_missing_numerical # {} /\ dataset_profile.total_rows > 1000
              THEN [config EXCEPT !.numerical_imputation = "knn"] ELSE config
        c2 == IF pt \in ClassificationTypes /\ c1.scaling = "none"
              THEN [c1 EXCEPT !.scaling = "standard"] ELSE c1
        c3 == IF high_cardinality_cats # {} /\ c2.encoding = "onehot"
              THEN [c2 EXCEPT !.encoding = "target"] ELSE c2
    IN  IF dataset_profile.total_columns > 20
        THEN [c3 EXCEPT !.feature_selection = TRUE,
                        !.feature_selection_k = Min(15, dataset_profile.total_columns - 1)]
        ELSE c3

Passthrough == <<<<"passthrough", "passthrough">>>>

\* _build_numerical_pipeline(config, column_profiles)
BuildNumericalPipeline(config) ==
    LET steps ==
            (IF config.numerical_imputation = "mean"
                THEN <<<<"imputer", "SimpleImputer(mean)">>>>
             ELSE IF config.numerical_imputation = "median"
                THEN <<<<"imputer", "SimpleImputer(median)">>>>
             ELSE IF config.numerical_imputation = "knn"
                THEN <<<<"imputer", "KNNImputer">>>>
             ELSE <<>>)
         \o (IF config.scaling = "standard" THEN <<<<"scaler", "StandardScaler">>>>
             ELSE IF config.scaling = "minmax" THEN <<<<"scaler", "MinMaxScaler">>>>
             ELSE IF config.scaling = "robust" THEN <<<<"scaler", "RobustScaler">>>>
             ELSE <<>>)
    IN  IF steps # <<>> THEN steps ELSE Passthrough

\* _build_categorical_pipeline(config, column_profiles)
BuildCategoricalPipeline(config) ==
    LET steps ==
            (IF config.categorical_imputation = "mode"
                THEN <<<<"imputer", "SimpleImputer(most_frequent)">>>>
             ELSE <<>>)
         \o (IF config.encoding = "onehot" THEN <<<<"encoder", "OneHotEncoder">>>>
             ELSE IF config.encoding = "label" THEN <<<<"encoder", "LabelEncoder">>>>
             ELSE <<>>)
    IN  IF steps # <<>> THEN steps ELSE Passthrough

\* FeatureColumnsOfType without "and col in column_roles.get('features', [])"
RECURSIVE FeatureColumnsOfType_AnyRole(_, _, _)
FeatureColumnsOfType_AnyRole(column_profiles, data_type, features) ==
    IF column_profiles = <<>> THEN <<>>
    ELSE (IF Head(column_profiles).data_type = data_type
          THEN <<Head(column_profiles).name>> ELSE <<>>)
         \o FeatureColumnsOfType_AnyRole(Tail(column_profiles), data_type, features)

\* the names of the profiles of one data type that are in column_roles['features'],
\* in the order of column_profiles
RECURSIVE FeatureColumnsOfType(_, _, _)
FeatureColumnsOfType(column_profiles, data_type, features) ==
    IF column_profiles = <<>> THEN <<>>
    ELSE (IF Head(column_profiles).data_type = data_type
             /\ Head(column_profiles).name \in Range(features)
          THEN <<Head(column_profiles).name>> ELSE <<>>)
         \o FeatureColumnsOfType(Tail(column_profiles), data_type, features)

\* select_pipeline(problem_type, column_roles, column_profiles, dataset_profile)
SelectPipelineOf(pt, column_roles, column_profiles, dataset_profile) ==
    LET strategy == DetermineStrategy(column_profiles, dataset_profile)
        config == CustomizeConfiguration(StrategyConfigs(strategy), pt,
                                         column_profiles, dataset_profile)
        numerical_pipeline == BuildNumericalPipeline(config)
        categorical_pipeline == BuildCategoricalPipeline(config)
        numerical_cols == FeatureColumnsOfType(column_profiles, "numerical",
                                               column_roles.features)
        categorical_cols == FeatureColumnsOfType(column_profiles, "categorical",
                                                 column_roles.features)
    IN  [strategy |-> strategy,
         numerical_imputation |-> config.numerical_imputation,
         categorical_imputation |-> config.categorical_imputation,
         scaling_method |-> config.scaling,
         encoding_method |-> config.encoding,
         feature_selection |-> config.feature_selection,
         feature_selection_k |-> config.feature_selection_k,
         outlier_handling |-> config.outlier_handling,
         numerical_pipeline |-> numerical_pipeline,
         categorical_pipeline |-> categorical_pipeline,
         full_pipeline |->
             (IF numerical_cols # <<>>
                 THEN <<<<"num", numerical_pipeline, numerical_cols>>>> ELSE <<>>)
          \o (IF categorical_cols # <<>>
                 THEN <<<<"cat", categorical_pipeline, categorical_cols>>>> ELSE <<>>)]

(***************************************************************************)
(* Tables for the pipeline selector: two leading columns of every kind     *)
(* followed by a run of like columns, so that the table is narrow, over 20 *)
(* or over 50 columns wide.                                                *)
(***************************************************************************)
PipelineRowCounts == {200, 2000}

\* number of columns after the two leading ones: 20 and 21 columns in all
PadCounts == {18, 19}

\* the same for the widest tables: 50 and 51 columns in all
WidePadCounts == {48, 49}

CleanMeasure == <<"float64", 0, 60, 0>>

RepeatedNumber == <<"float64", 0, 1, 0>>

\* <<dtype, missing, nunique, skew>> of a column of n rows
PipelineKinds(n) ==
    {CleanMeasure,
     <<"float64", 0, n, 0>>,                  \* no value repeated
     <<"float64", 1, n - 1, 0>>,              \* the same with one missing value
     <<"float64", n \div 10, 60, 0>>,         \* 10% missing
     <<"float64", n \div 5, 60, 3>>,          \* 20% missing, skewed
     <<"float64", n \div 5 + 1, 60, 0>>,      \* just over 20% missing
     <<"float64", (2 * n) \div 5, 60, 0>>,    \* 40% missing
     RepeatedNumber,
     <<"object", 0, 3, 0>>,                   \* three categories
     <<"object", 0, 12, 0>>}                  \* twelve categories

PadKinds == {CleanMeasure, RepeatedNumber}

Digits == <<"0", "1", "2", "3", "4", "5", "6", "7", "8", "9">>

ColumnName(i) == <<"v", Digits[(i \div 10) + 1], Digits[(i % 10) + 1]>>

PipelineSeries(i, x) == MkSeries(ColumnName(i), x[1], x[2], x[3], FALSE, 0, 5, 1, 0, x[4])

PipelineColumns(first, second, pad, pad_kind) ==
    [i \in 1..(2 + pad) |->
        IF i = 1 THEN PipelineSeries(i, first)
        ELSE IF i = 2 THEN PipelineSeries(i, second)
        ELSE PipelineSeries(i, pad_kind)]

PipelineTableOf(n, first, second, pad, pad_kind) ==
    MkTable(n, DuplicateRows(PipelineColumns(first, second, pad, pad_kind), n),
            PipelineColumns(first, second, pad, pad_kind))

\* two columns of every kind; 20 or 21 columns; 50 or 51 columns
PipelineTable(t) ==
    \/ \E n \in PipelineRowCounts :
       \E first \in PipelineKinds(n), second \in PipelineKinds(n) :
          t = PipelineTableOf(n, first, second, 0, CleanMeasure)
    \/ \E pad \in PadCounts, pad_kind \in PadKinds :
       \E first \in PipelineKinds(TableRows), second \in PipelineKinds(TableRows) :
          t = PipelineTableOf(TableRows, first, second, pad, pad_kind)
    \/ \E pad \in WidePadCounts, pad_kind \in PadKinds :
       \E first \in PipelineKinds(TableRows) :
          t = PipelineTableOf(TableRows, first, CleanMeasure, pad, pad_kind)

InitPipeline ==
    /\ PipelineTable(df)
    /\ profile = NoValue
    /\ intel = NoValue
    /\ role_calls = <<>>
    /\ TrainIdle
    /\ PipelineIdle
    /\ RouteIdle
    /\ ExtIdle

\* AutoPipelineSelector().select_pipeline(intelligence_result.problem_type,
\*     {'features': ...}, dataset_profile.column_profiles, dataset_profile)
SelectPipeline ==
    /\ profile # NoValue
    /\ intel # NoValue
    /\ pipeline = NoValue
    /\ pipeline' = SelectPipelineOf(intel.problem_type,
                                    [features |-> intel.feature_columns],
                                    profile.column_profiles, profile)
    /\ UNCHANGED <<intelVars, trainVars, routeVars, extVars>>

NextPipeline == ProfileDataset \/ AnalyzeDatasetIntelligence \/ SelectPipeline

SpecPipeline == InitPipeline /\ [][NextPipeline]_vars

\* the three engines in turn on the tables of SpecIntel, whose columns take
\* every role
SpecSelect == InitIntel /\ [][NextPipeline]_vars

(***************************************************************************)
(* Tables for target inference: columns v01, v02, ... whose names match no *)
(* pattern, of every kind that changes a term of the target score.         *)
(***************************************************************************)
InferColumns == 4

\* <<dtype, missing, nunique, in_bool_set>> of a column of TableRows rows
InferKinds ==
    {<<"float64", 0, 2, FALSE>>,                  \* two numbers
     <<"float64", 0, 2, TRUE>>,                   \* 0 and 1
     <<"float64", TableRows \div 5, 2, FALSE>>,   \* two numbers, 20% missing
     <<"float64", 0, 60, FALSE>>,                 \* a measure
     <<"float64", 0, 150, FALSE>>,                \* over 100 distinct numbers
     <<"object", 0, 3, FALSE>>,                   \* three categories
     <<"object", 0, 150, FALSE>>}                 \* over 100 short strings

InferSeries(i, x) == MkSeries(ColumnName(i), x[1], x[2], x[3], x[4], 0, 5, 1, 0, 0)

InferTable(t) ==
    \E ks \in [1..InferColumns -> InferKinds] :
        LET cols == [i \in 1..InferColumns |-> InferSeries(i, ks[i])]
        IN  t = MkTable(TableRows, DuplicateRows(cols, TableRows), cols)

InitInfer ==
    /\ InferTable(df)
    /\ profile = NoValue
    /\ intel = NoValue
    /\ role_calls = <<>>
    /\ TrainIdle
    /\ PipelineIdle
    /\ RouteIdle
    /\ ExtIdle

SpecInfer == InitInfer /\ [][NextIntel]_vars

(***************************************************************************)
(* routes/train_simple.py: train_model, the handler of POST /api/train     *)
(*                                                                         *)
(* The request is what the handler reads: whether the body is JSON and     *)
(* names a file, the file (present, extension, readable), and the table    *)
(* left by df.dropna(how='all').dropna(axis=1, how='all').  Test scores of *)
(* the models are percentages.                                             *)
(***************************************************************************)
MIN_ROWS == 20

MIN_COLUMNS == 2

RouteModels == <<"Random Forest", "Gradient Boosting", "Extra Trees">>

RouteScores == {70, 80}

RouteRequests ==
    [is_json : BOOLEAN, has_filename : BOOLEAN, file_exists : BOOLEAN,
     extension : {"csv", "xlsx", "txt"}, readable : BOOLEAN,
     rows : {0, 5, 19, 20, 100}, columns : {1, 2, 5},
     training_mode : {"quick", "standard", "thorough"}]

ErrorResponse(status, message) == [status |-> status, error |-> message]

ValidationResponse_NoRowCheck(r) ==
    IF ~r.is_json THEN ErrorResponse(400, "Request must be JSON")
    ELSE IF ~r.has_filename THEN ErrorResponse(400, "Filename required")
    ELSE IF ~r.file_exists THEN ErrorResponse(404, "File not found")
    ELSE IF r.extension \notin {"csv", "xlsx", "xls"}
         THEN ErrorResponse(400, "Only CSV and Excel files supported")
    ELSE IF ~r.readable THEN ErrorResponse(500, "Training failed")
    ELSE IF r.columns < MIN_COLUMNS THEN ErrorResponse(400, "Need at least 2 columns")
    ELSE NoValue

\* the early returns of train_model, in their order; NoValue when none is taken
ValidationResponse(r) ==
    IF ~r.is_json THEN ErrorResponse(400, "Request must be JSON")
    ELSE IF ~r.has_filename THEN ErrorResponse(400, "Filename required")
    ELSE IF ~r.file_exists THEN ErrorResponse(404, "File not found")
    ELSE IF r.extension \notin {"csv", "xlsx", "xls"}
         THEN ErrorResponse(400, "Only CSV and Excel files supported")
    ELSE IF ~r.readable THEN ErrorResponse(500, "Training failed")
    ELSE IF r.rows < MIN_ROWS
         THEN ErrorResponse(400, "Dataset too small (minimum 20 rows required)")
    ELSE IF r.columns < MIN_COLUMNS THEN ErrorResponse(400, "Need at least 2 columns")
    ELSE NoValue

\* "if score > best_score" over the results in order: the first largest score
RouteBest(results) ==
    IF results = <<>> THEN NoValue
    ELSE results[CHOOSE i \in DOMAIN results :
                    /\ \A j \in DOMAIN results : results[j].score <= results[i].score
                    /\ \A j \in 1..(i - 1) : results[j].score < results[i].score]

\* the ensemble replaces the best model when it was fitted and scores higher
RouteBestWithEnsemble(best, ensemble_score) ==
    IF ensemble_score # 0 /\ (best = NoValue \/ ensemble_score > best.score)
    THEN [model |-> "Ensemble", score |-> ensemble_score]
    ELSE best

IntelIdle ==
    /\ df = MkTable(0, 0, <<>>) /\ profile = NoValue /\ intel = NoValue /\ role_calls = <<>>

InitRoute ==
    /\ IntelIdle
    /\ TrainIdle
    /\ PipelineIdle
    /\ ExtIdle
    /\ req \in RouteRequests
    /\ rpc = "received"
    /\ route_idx = 0
    /\ route_results = <<>>
    /\ route_trained = <<>>
    /\ route_saved = {}
    /\ response = NoValue

\* one of the early returns (or pd.read_csv raising into the outer except)
RouteReject ==
    /\ rpc = "received"
    /\ ValidationResponse(req) # NoValue
    /\ response' = ValidationResponse(req)
    /\ rpc' = "responded"
    /\ UNCHANGED <<req, route_idx, route_results, route_trained, route_saved>>
    /\ UNCHANGED <<intelVars, trainVars, pipeVars, extVars>>

\* the request passed the checks: preprocessing, split, scaling
RouteStartTraining ==
    /\ rpc = "received"
    /\ ValidationResponse(req) = NoValue
    /\ rpc' = "training"
    /\ route_idx' = 1
    /\ UNCHANGED <<req, route_results, route_trained, route_saved, response>>
    /\ UNCHANGED <<intelVars, trainVars, pipeVars, extVars>>

\* preprocessing, feature selection or train_test_split raises: outer except
RoutePreprocessingRaises ==
    /\ rpc = "received"
    /\ ValidationResponse(req) = NoValue
    /\ response' = ErrorResponse(500, "Training failed")
    /\ rpc' = "responded"
    /\ UNCHANGED <<req, route_idx, route_results, route_trained, route_saved>>
    /\ UNCHANGED <<intelVars, trainVars, pipeVars, extVars>>

\* one pass of the loop: cross_val_score, fit and predict succeed
RouteTrainSucceeds ==
    /\ rpc = "training"
    /\ route_idx <= Len(RouteModels)
    /\ \E score \in RouteScores :
          route_results' = Append(route_results,
                                  [model |-> RouteModels[route_idx], score |-> score])
    /\ route_trained' = Append(route_trained, RouteModels[route_idx])
    /\ route_idx' = route_idx + 1
    /\ UNCHANGED <<req, rpc, route_saved, response>>
    /\ UNCHANGED <<intelVars, trainVars, pipeVars, extVars>>

\* one pass of the loop: an exception, printed, continue
RouteTrainFails ==
    /\ rpc = "training"
    /\ route_idx <= Len(RouteModels)
    /\ route_idx' = route_idx + 1
    /\ UNCHANGED <<req, rpc, route_results, route_trained, route_saved, response>>
    /\ UNCHANGED <<intelVars, trainVars, pipeVars, extVars>>

\* after the loop: ensemble (thorough mode, two or more trained models; 0 is
\* a failed ensemble), joblib.dump, then the response built from
\* next(r for r in results if r['model'] == best_model_name)
RouteFinish ==
    /\ rpc = "training"
    /\ route_idx > Len(RouteModels)
    /\ \E ensemble_score \in
           (IF req.training_mode = "thorough" /\ Len(route_trained) >= 2
               THEN {0} \cup {sc + 5 : sc \in RouteScores} ELSE {0}) :
          LET best == RouteBestWithEnsemble(RouteBest(route_results), ensemble_score)
          IN  /\ route_saved' = route_saved \cup {[best_model |-> best,
                                                   all_results |-> route_results]}
              /\ response' =
                    IF best # NoValue /\ \E i \in DOMAIN route_results :
                                            route_results[i].model = best.model
                    THEN [status |-> 200, best_model |-> best.model,
                          all_models |-> route_results]
                    ELSE ErrorResponse(500, "Training failed")
    /\ rpc' = "responded"
    /\ UNCHANGED <<req, route_idx, route_results, route_trained>>
    /\ UNCHANGED <<intelVars, trainVars, pipeVars, extVars>>

NextRoute ==
    \/ RouteReject
    \/ RouteStartTraining
    \/ RoutePreprocessingRaises
    \/ RouteTrainSucceeds
    \/ RouteTrainFails
    \/ RouteFinish

SpecRoute == InitRoute /\ [][NextRoute]_vars

(***************************************************************************)
(* Properties of the profiling and intelligence engines (SpecIntel)        *)
(***************************************************************************)
ColumnNames == {df.columns[i].name : i \in DOMAIN df.columns}

Occurrences(list, name) == Cardinality({i \in DOMAIN list : list[i] = name})

\* in how many role sets of the result a column name is listed
RoleCount(r, name) ==
      (IF r.target_column = name THEN 1 ELSE 0)
    + Occurrences(r.feature_columns, name)
    + Occurrences(r.identifier_columns, name)
    + Occurrences(r.timestamp_columns, name)
    + Occurrences(r.text_columns, name)
    + Occurrences(r.ignore_columns, name)

RoleNames(r) ==
    Range(r.feature_columns) \cup Range(r.identifier_columns)
    \cup Range(r.timestamp_columns) \cup Range(r.text_columns)
    \cup Range(r.ignore_columns)
    \cup (IF r.target_column = NoTarget THEN {} ELSE {r.target_column})

\* C1: after analyze_dataset_intelligence the role assignment is a partition of
\* the table's columns: every column is listed in exactly one of target,
\* features, identifiers, timestamps, text, ignore, nothing else is listed, and
\* the target is at most one column -- also when the target was inferred.
C1_RolePartition ==
    intel # NoValue =>
        /\ \A name \in ColumnNames : RoleCount(intel, name) = 1
        /\ RoleNames(intel) \subseteq ColumnNames

\* a table of three or more columns, none named like a target, whose target
\* was inferred from the feature candidates
C1_Witness ==
    /\ intel # NoValue
    /\ Len(df.columns) >= 3
    /\ \A name \in ColumnNames : ~MatchesTargetPattern(LowerName(name))
    /\ intel.target_column # NoTarget
    /\ Len(intel.feature_columns) >= 1

\* the profile of the column the result names as target
TargetProfileOf(r) ==
    LET c == CHOOSE c \in Range(df.columns) : c.name = r.target_column
    IN  ProfileColumn(c, df.total_rows)

\* C5: _determine_problem_type applies its rules in the fixed order
\* no target -> EXPLORATORY 0.6; a timestamp column -> TIME_SERIES 0.8; text
\* target or a text column -> TEXT_ANALYTICS 0.7; numeric target with unique
\* count <= 2 -> BINARY 0.9, <= 20 -> MULTICLASS 0.8, else REGRESSION 0.9;
\* categorical/boolean target with unique count <= 2 -> BINARY 0.95, else
\* MULTICLASS 0.9; anything else -> EXPLORATORY 0.4.  The first rule that
\* matches gives both the problem type and the confidence.
C5_ProblemTypeRules ==
    intel # NoValue =>
        LET res == <<intel.problem_type, intel.confidence_score>>
            has_target == intel.target_column # NoTarget
            tp == TargetProfileOf(intel)
            timestamps == intel.timestamp_columns # <<>>
            texts == tp.data_type = "text" \/ intel.text_columns # <<>>
            plain == has_target /\ ~timestamps /\ ~texts
        IN  /\ ~has_target => res = <<"exploratory", 60>>
            /\ has_target /\ timestamps => res = <<"time_series", 80>>
            /\ has_target /\ ~timestamps /\ texts => res = <<"text_analytics", 70>>
            /\ plain /\ tp.data_type = "numerical" /\ tp.unique_count <= 2
                   => res = <<"binary_classification", 90>>
            /\ plain /\ tp.data_type = "numerical" /\ tp.unique_count > 2
                     /\ tp.unique_count <= 20
                   => res = <<"multiclass_classification", 80>>
            /\ plain /\ tp.data_type = "numerical" /\ tp.unique_count > 20
                   => res = <<"regression", 90>>
            /\ plain /\ tp.data_type \in {"categorical", "boolean"}
                     /\ tp.unique_count <= 2
                   => res = <<"binary_classification", 95>>
            /\ plain /\ tp.data_type \in {"categorical", "boolean"}
                     /\ tp.unique_count > 2
                   => res = <<"multiclass_classification", 90>>
            /\ plain /\ tp.data_type \notin {"numerical", "categorical", "boolean"}
                   => res = <<"exploratory", 40>>

\* a numeric target with 200 unique values, no timestamp and no text column:
\* the problem is a regression
C5_Witness ==
    /\ intel # NoValue
    /\ intel.target_column # NoTarget
    /\ TargetProfileOf(intel).data_type = "numerical"
    /\ TargetProfileOf(intel).unique_count = 200
    /\ intel.timestamp_columns = <<>> /\ intel.text_columns = <<>>
    /\ intel.problem_type = "regression"

\* the role the stated precedence gives to column c of a table of n rows
ExpectedRole(c, n) ==
    LET nm == LowerName(c.name)
        ty == DetectDataType(c, n)
    IN  IF MatchesIdPattern(nm) THEN "identifier"
        ELSE IF MatchesTimePattern(nm) \/ ty = "datetime" THEN "timestamp"
        ELSE IF MatchesTargetPattern(nm) THEN "target"
        ELSE IF ty = "text" THEN "text"
        ELSE IF c.nunique <= 1 \/ (n > 0 /\ 100 * c.missing > 90 * n) THEN "ignore"
        ELSE IF n > 0 /\ 100 * c.nunique > 95 * n /\ c.nunique > 100 THEN "identifier"
        ELSE "feature"

\* C6: _classify_column_role gives each column the role of the first matching
\* rule of: identifier-name pattern -> IDENTIFIER; timestamp-name pattern or
\* datetime type -> TIMESTAMP; target-name pattern -> TARGET; text type ->
\* TEXT; constant or more than 90% missing -> IGNORE; unique% > 95 and unique
\* count > 100 -> IDENTIFIER; otherwise FEATURE.
C6_RolePrecedence ==
    /\ Len(role_calls) \in {0, Len(df.columns)}
    /\ \A i \in DOMAIN role_calls :
          role_calls[i] = <<df.columns[i].name, ExpectedRole(df.columns[i], df.total_rows)>>

\* a text column whose name matches both the timestamp and the target patterns
\* is classified as a timestamp
C6_Witness ==
    \E i \in DOMAIN role_calls :
        /\ MatchesTimePattern(LowerName(df.columns[i].name))
        /\ MatchesTargetPattern(LowerName(df.columns[i].name))
        /\ DetectDataType(df.columns[i], df.total_rows) = "text"
        /\ role_calls[i][2] = "timestamp"

\* C7: for every profiled column, quality_score is 0 when unique_count <= 1 and
\* otherwise 100 - min(missing%, 50) - 10 * (number of quality issues), clamped
\* to [0, 100]; so it always lies in [0, 100].  (Scores are numerators over
\* Den(total_rows).)
C7_ColumnQualityScore ==
    profile # NoValue =>
        \A i \in DOMAIN profile.column_profiles :
            LET p == profile.column_profiles[i]
                n == profile.total_rows
                den == IF n > 0 THEN n ELSE 1
                missing_pct == IF n > 0 THEN 100 * p.missing_count ELSE 0
                raw == 100 * den - Min(missing_pct, 50 * den)
                           - 10 * Len(p.quality_issues) * den
            IN  /\ p.unique_count <= 1 => p.quality_score = 0
                /\ p.unique_count > 1 => p.quality_score = Max(0, Min(100 * den, raw))
                /\ 0 <= p.quality_score /\ p.quality_score <= 100 * den

\* a varying column with missing values and two quality issues, scored between
\* 0 and 100
C7_Witness ==
    /\ profile # NoValue
    /\ \E i \in DOMAIN profile.column_profiles :
          LET p == profile.column_profiles[i]
          IN  /\ p.unique_count > 1
              /\ p.missing_count > 0
              /\ Len(p.quality_issues) = 2
              /\ p.quality_score > 0
              /\ p.quality_score < 80 * profile.total_rows

\* C8: overall_quality_score = average(column scores) - min(duplicate %, 20),
\* clamped to [0, 100], so it lies in [0, 100]; when every column is one
\* repeated constant value, every column scores 0, CONSTANT_COLUMN is flagged
\* on every column and the overall score is 0.  (The overall score is a
\* numerator over Den(total_rows) * number of columns.)
C8_OverallQualityScore ==
    profile # NoValue =>
        LET n == profile.total_rows
            k == Len(profile.column_profiles)
            den == IF n > 0 THEN n ELSE 1
            dup_pct == IF n > 0 THEN 100 * profile.duplicate_rows ELSE 0
            sum_scores == SumSeq([i \in 1..k |-> profile.column_profiles[i].quality_score])
            raw == sum_scores - k * Min(dup_pct, 20 * den)
            all_constant == \A i \in 1..k : df.columns[i].nunique = 1
                                               /\ df.columns[i].missing = 0
        IN  /\ k > 0 => profile.overall_quality_score = Max(0, Min(100 * den * k, raw))
            /\ 0 <= profile.overall_quality_score
            /\ profile.overall_quality_score <= 100 * den * Max(k, 1)
            /\ k > 0 /\ n > 0 /\ all_constant =>
                  /\ \A i \in 1..k :
                        /\ profile.column_profiles[i].quality_score = 0
                        /\ "constant_column" \in Range(profile.column_profiles[i].quality_issues)
                  /\ profile.overall_quality_score = 0

\* three columns, each one repeated value: the average is 0, the duplicate
\* penalty would take the score below 0, and the score is 0
C8_Witness ==
    /\ profile # NoValue
    /\ Len(df.columns) = 3
    /\ \A i \in DOMAIN df.columns : df.columns[i].nunique = 1 /\ df.columns[i].missing = 0
    /\ profile.duplicate_rows > 0
    /\ profile.overall_quality_score = 0

(***************************************************************************)
(* Properties of train_automl (SpecTrain)                                  *)
(***************************************************************************)
ResultTypes == [i \in DOMAIN model_results |-> model_results[i].model_type]

RegistryPosition(model_type) ==
    CHOOSE i \in DOMAIN models_to_try : models_to_try[i] = model_type

InRegistryOrder(types) ==
    \A i, j \in DOMAIN types : i < j => RegistryPosition(types[i]) < RegistryPosition(types[j])

LoopOver == pc \in {"training", "returned", "raised"} /\ idx > Len(models_to_try)

\* C2: a candidate whose training raises is dropped and the loop goes on with
\* the next candidate in registry order: the candidates passed so far are
\* split, each in registry order, into the trained and the dropped ones, and
\* no failure of a candidate ends the run.  Once the loop is over with at
\* least one trained candidate the run has not raised, and the result it
\* returns has one of the trained candidates as best_model: the sole
\* survivor when all the others failed.
C2_FailingCandidateDropped ==
    /\ idx > 0 =>
          /\ Len(model_results) + Len(dropped) = idx - 1
          /\ \A i \in 1..(idx - 1) :
                (models_to_try[i] \in Range(ResultTypes))
                    # (models_to_try[i] \in Range(dropped))
          /\ \A i \in idx..Len(models_to_try) :
                models_to_try[i] \notin Range(ResultTypes) \cup Range(dropped)
          /\ InRegistryOrder(ResultTypes)
          /\ InRegistryOrder(dropped)
    /\ (idx > 0 /\ idx <= Len(models_to_try)) => pc = "training"
    /\ (model_results # <<>>) => pc # "raised" /\ error = NoError
    /\ pc = "returned" =>
          /\ model_results # <<>>
          /\ result.best_model \in Range(model_results)
          /\ result.best_model.model_type \notin Range(dropped)
          /\ Len(model_results) = 1 => result.best_model = model_results[1]

\* three of the four classification candidates raised, the first of them
\* included, and the run returned the survivor
C2_Witness ==
    /\ pc = "returned"
    /\ problem_type = "binary_classification"
    /\ dropped = <<"LogisticRegression", "RandomForestClassifier", "SVC">>
    /\ Len(model_results) = 1
    /\ result.best_model = model_results[1]
    /\ result.best_model.model_type = "GradientBoostingClassifier"

\* C3: when every candidate fails the run raises: no AutoMLResult is
\* returned, no best model is selected and no model artifact is saved.
C3_AllCandidatesFail ==
    (LoopOver /\ model_results = <<>>) =>
        /\ pc # "returned"
        /\ result = NoValue
        /\ artifacts = {}
        /\ pc = "raised" => error = "No models could be trained successfully"

\* all four regression candidates raised and the run ended with the error
C3_Witness ==
    /\ pc = "raised"
    /\ problem_type = "regression"
    /\ Len(dropped) = 4
    /\ model_results = <<>>
    /\ error = "No models could be trained successfully"
    /\ artifacts = {}

\* C4: the best model of a returned result is a trained candidate whose mean
\* cross-validation score no trained candidate exceeds, and among the
\* trained candidates with that score it is the one listed first in the
\* registry; for classification and regression alike.
C4_BestIsFirstMaximum ==
    pc = "returned" =>
        LET best == result.best_model
        IN  /\ \E i \in DOMAIN model_results : model_results[i] = best
            /\ \A i \in DOMAIN model_results :
                  /\ model_results[i].mean_cv_score <= best.mean_cv_score
                  /\ model_results[i].mean_cv_score = best.mean_cv_score =>
                        RegistryPosition(best.model_type)
                            <= RegistryPosition(model_results[i].model_type)

\* a regression run in which two candidates share the maximum and a
\* candidate of lower score was trained before them
C4_Witness ==
    /\ pc = "returned"
    /\ problem_type = "regression"
    /\ Len(model_results) = 4
    /\ model_results[1].mean_cv_score < model_results[2].mean_cv_score
    /\ model_results[2].mean_cv_score = model_results[4].mean_cv_score
    /\ model_results[3].mean_cv_score < model_results[2].mean_cv_score
    /\ result.best_model = model_results[2]

\* C9: a returned result carries a confidence level among High, Medium and
\* Low: High when the best model's test score is above 0.85 and the standard
\* deviation of its cross-validation scores below 0.05; otherwise Medium
\* when its test score is above 0.7 and its mean cross-validation score is
\* more than 0.05 above that of the worst trained model; otherwise Low.
C9_ConfidenceLevel ==
    pc = "returned" =>
        LET best == result.best_model
            level == result.confidence_level
            high == best.test_score > 85000 /\ best.std_cv_score < 5000
            gap == \E i \in DOMAIN model_results :
                      /\ \A j \in DOMAIN model_results :
                            model_results[i].mean_cv_score <= model_results[j].mean_cv_score
                      /\ best.mean_cv_score - model_results[i].mean_cv_score > 5000
            medium == ~high /\ best.test_score > 70000 /\ gap
        IN  /\ level \in {"High", "Medium", "Low"}
            /\ level = "High" <=> high
            /\ level = "Medium" <=> medium
            /\ level = "Low" <=> (~high /\ ~medium)

\* a best model with a test score above 0.85 whose standard deviation is
\* exactly 0.05, more than 0.05 above the worst model: Medium
C9_Witness ==
    /\ pc = "returned"
    /\ result.best_model.test_score > 85000
    /\ result.best_model.std_cv_score = 5000
    /\ \E i \in DOMAIN model_results :
          result.best_model.mean_cv_score - model_results[i].mean_cv_score > 5000
    /\ result.confidence_level = "Medium"

ComparisonModels(comparison) == [i \in DOMAIN comparison |-> comparison[i].Model]

ChurnColumn == CHOOSE c \in Range(df.columns) : c.name = NameChurn

NumericColumns == {c \in Range(df.columns) : c.name # NameChurn}

ChurnIsBinaryTarget ==
    /\ intel.target_column = NameChurn
    /\ intel.problem_type = "binary_classification"
    /\ intel.confidence_score >= 90

C13_UnknownAlgorithmNeverDropped ==
    \A i \in DOMAIN dropped :
        dropped[i] \in (IF problem_type \in ClassificationTypes
                           THEN ClassificationModels ELSE RegressionModels)

(***************************************************************************)
(* Further properties of the profiling and intelligence engines (SpecIntel)*)
(***************************************************************************)
\* positions of the columns _classify_column_role gave the target role
TargetRoleCalls == {i \in DOMAIN role_calls : role_calls[i][2] = "target"}

\* C16: when several columns are classified with the target role, the first of
\* them in column order is the target, and every later one is listed once in
\* the features and in no other role set.
C16_FirstTargetKept ==
    (intel # NoValue /\ TargetRoleCalls # {}) =>
        \A i \in TargetRoleCalls :
            IF \A j \in TargetRoleCalls : i <= j
            THEN intel.target_column = role_calls[i][1]
            ELSE /\ intel.target_column # role_calls[i][1]
                 /\ Occurrences(intel.feature_columns, role_calls[i][1]) = 1
                 /\ role_calls[i][1] \notin
                       (Range(intel.identifier_columns) \cup Range(intel.timestamp_columns)
                        \cup Range(intel.text_columns) \cup Range(intel.ignore_columns))

\* two columns of the target role, the later one among the features
C16_Witness ==
    /\ intel # NoValue
    /\ Cardinality(TargetRoleCalls) >= 2
    /\ \E i \in TargetRoleCalls : role_calls[i][1] \in Range(intel.feature_columns)

\* positions of the columns whose values are all missing
AllMissingColumns == {i \in DOMAIN df.columns : df.columns[i].missing = df.total_rows}

NoRoleName(name) ==
    /\ ~MatchesIdPattern(LowerName(name))
    /\ ~MatchesTimePattern(LowerName(name))
    /\ ~MatchesTargetPattern(LowerName(name))

C18_UnknownOnlyIfAllMissing ==
    profile # NoValue =>
        \A i \in DOMAIN profile.column_profiles :
            profile.column_profiles[i].data_type = "unknown"
                => profile.column_profiles[i].missing_count = profile.total_rows

\* C19: every column profiled with type boolean has at most 2 distinct values.
C19_BooleanAtMostTwoValues ==
    profile # NoValue =>
        \A i \in DOMAIN profile.column_profiles :
            profile.column_profiles[i].data_type = "boolean"
                => profile.column_profiles[i].unique_count <= 2

(***************************************************************************)
(* Properties of the training route (SpecRoute)                            *)
(***************************************************************************)
DatasetLoaded ==
    /\ req.is_json /\ req.has_filename /\ req.file_exists
    /\ req.extension \in {"csv", "xlsx"} /\ req.readable

ColumnIssueCount ==
    SumSeq([i \in DOMAIN profile.column_profiles |->
               Len(profile.column_profiles[i].quality_issues)])

HighMissingColumns ==
    {i \in DOMAIN profile.column_profiles :
        profile.column_profiles[i].missing_count * 100 > 20 * profile.total_rows}

IsWide == Len(df.columns) > 50

\* overall quality score >= q
QualityAtLeast(q) ==
    profile.overall_quality_score
        >= q * Den(profile.total_rows) * Max(1, Len(profile.column_profiles))

\* C14: the strategy of the selected pipeline is given by the first matching
\* rule: quality >= 90 and no column quality issue -> minimal; quality >= 70,
\* no column over 20% missing and at most 50 columns -> standard; quality >= 50
\* or a column over 20% missing or more than 50 columns -> robust; otherwise
\* advanced.  Hence advanced only with quality < 50, no high-missing column
\* and at most 50 columns.
C14_StrategyByFirstMatchingRule ==
    pipeline # NoValue =>
        /\ pipeline.strategy =
              (IF QualityAtLeast(90) /\ ColumnIssueCount = 0 THEN "minimal"
               ELSE IF QualityAtLeast(70) /\ HighMissingColumns = {} /\ ~IsWide
                    THEN "standard"
               ELSE IF QualityAtLeast(50) \/ HighMissingColumns # {} \/ IsWide
                    THEN "robust"
               ELSE "advanced")
        /\ pipeline.strategy = "advanced" =>
              ~QualityAtLeast(50) /\ HighMissingColumns = {} /\ ~IsWide

\* a table of quality below 50 with no high-missing column, 50 columns wide
C14_Witness ==
    /\ pipeline # NoValue
    /\ pipeline.strategy = "advanced"
    /\ Len(df.columns) = 50
    /\ \E i \in DOMAIN df.columns : df.columns[i].missing > 0

(***************************************************************************)
(* Properties of target inference (SpecInfer)                              *)
(***************************************************************************)
NoTargetName ==
    \A i \in DOMAIN df.columns : ~MatchesTargetPattern(LowerName(df.columns[i].name))

\* the columns classified as features, by position
Candidates ==
    {i \in DOMAIN df.columns : ExpectedRole(df.columns[i], df.total_rows) = "feature"}

\* the stated score of the column at position i, times 2 * total_rows
StatedScore(i) ==
    LET c == df.columns[i]
        n == df.total_rows
    IN  (IF c.nunique >= 2 /\ c.nunique <= 50 THEN 30 * 2 * n ELSE 0)
      + (IF DetectDataType(c, n) \in {"categorical", "boolean"} THEN 20 * 2 * n ELSE 0)
      + (IF i > Len(df.columns) - 3 THEN 15 * 2 * n ELSE 0)
      - 100 * c.missing
      - (IF c.nunique > 100 THEN 20 * 2 * n ELSE 0)

\* the names of the columns at the positions in I, in column order
OrderedNames(I) ==
    LET f[k \in 0..Len(df.columns)] ==
            IF k = 0 THEN <<>>
            ELSE IF k \in I THEN Append(f[k - 1], df.columns[k].name) ELSE f[k - 1]
    IN  f[Len(df.columns)]

\* C15: when no column name matches the target pattern, every feature
\* candidate is scored +30 for a unique count in [2,50], +20 for categorical
\* or boolean type, +15 for being among the last three columns, -0.5 x
\* missing%, -20 for a unique count over 100; the highest-scoring candidate
\* (the first of them in column order) is the target if its score is above 20
\* and is then removed from the features; otherwise there is no target and the
\* problem type is exploratory.
C15_TargetInferredByScore ==
    (intel # NoValue /\ NoTargetName) =>
        IF \E i \in Candidates : StatedScore(i) > 20 * 2 * df.total_rows
        THEN \E w \in Candidates :
                /\ \A j \in Candidates : StatedScore(j) <= StatedScore(w)
                /\ \A j \in Candidates : j < w => StatedScore(j) < StatedScore(w)
                /\ intel.target_column = df.columns[w].name
                /\ intel.feature_columns = OrderedNames(Candidates \ {w})
        ELSE /\ intel.target_column = NoTarget
             /\ intel.feature_columns = OrderedNames(Candidates)
             /\ intel.problem_type = "exploratory"

\* the inferred target is a later candidate that wins by the position bonus
\* over an earlier candidate of the same kind
C15_Witness ==
    /\ intel # NoValue
    /\ NoTargetName
    /\ intel.target_column = df.columns[2].name
    /\ 1 \in Candidates
    /\ StatedScore(1) + 15 * 2 * df.total_rows = StatedScore(2)
    /\ Len(intel.feature_columns) = Len(df.columns) - 1

\* C20: the categorical pipeline built by select_pipeline is an imputation
\* step followed by an encoding step, for every strategy and every outcome of
\* the customization.
C20_CategoricalImputeThenEncode ==
    pipeline # NoValue =>
        \E i, j \in DOMAIN pipeline.categorical_pipeline :
            /\ i < j
            /\ pipeline.categorical_pipeline[i][1] = "imputer"
            /\ pipeline.categorical_pipeline[j][1] = "encoder"

(***************************************************************************)
(* Properties of the composite transform (SpecSelect, SpecPipeline)        *)
(***************************************************************************)
\* the columns a sub-transform of the composite transform is applied to
TransformInputs(t) == Range(pipeline.full_pipeline[t][3])

C28_EveryFeatureTransformed ==
    pipeline # NoValue =>
        \A k \in DOMAIN intel.feature_columns :
            Cardinality({t \in DOMAIN pipeline.full_pipeline :
                            intel.feature_columns[k] \in TransformInputs(t)}) = 1

\* the scaling of the strategy's base configuration
TierScaling(strategy) ==
    CASE strategy = "minimal" -> "none"
      [] strategy = "standard" -> "standard"
      [] strategy \in {"robust", "advanced"} -> "robust"

\* C22: for binary and multiclass classification the returned configuration
\* never has scaling_method none (none becomes standard); for every other
\* problem type the scaling is that of the selected tier.
C22_ClassificationAlwaysScaled ==
    pipeline # NoValue =>
        IF intel.problem_type \in {"binary_classification", "multiclass_classification"}
        THEN /\ pipeline.scaling_method # "none"
             /\ pipeline.scaling_method =
                   (IF pipeline.strategy = "minimal" THEN "standard"
                    ELSE TierScaling(pipeline.strategy))
        ELSE pipeline.scaling_method = TierScaling(pipeline.strategy)

\* the minimal tier on a classification table: scaling forced on
C22_Witness ==
    /\ pipeline # NoValue
    /\ pipeline.strategy = "minimal"
    /\ intel.problem_type = "multiclass_classification"
    /\ pipeline.scaling_method = "standard"
    /\ pipeline.numerical_pipeline # Passthrough

(***************************************************************************)
(* Governance records and the model lifecycle                              *)
(*   backend/services/governance_tracker.py (GovernanceTracker)            *)
(*   backend/ml_engine/decision_log_v2.py   (MLDecisionEngine)             *)
(*   backend/routes/train.py                (ModelLifecycleManager)        *)
(* A data frame is represented by what these modules read from it: its     *)
(* row count, the dtype and distinct values of its last column, the cells  *)
(* missing, and the numbers of object and numeric feature columns.         *)
(***************************************************************************)
\* the instants datetime.now() is read at, in seconds; 0 and 1 share a minute
Instants == {0, 1, 60}

SecondsPerMinute == 60

\* time passes
Tick ==
    /\ \E t \in Instants : t > clock /\ clock' = t
    /\ UNCHANGED <<intelVars, trainVars, pipeVars, routeVars>>
    /\ UNCHANGED <<govVars, storeVars, profVars, jobVars>>

\* a file of a directory is created or replaced (joblib.dump)
WriteFile(dir, path, content) ==
    [q \in (DOMAIN dir) \cup {path} |-> IF q = path THEN content ELSE dir[q]]

\* ---- GovernanceTracker ----
MaxGovRows == 2

MaxTrackedRuns == 1

ContentHashes == {"sha-a"}

DecisionTypes == {"algorithm_selection"}

ChosenOptions == {"RandomForestClassifier", "LogisticRegression"}

\* db_session.add(row); db_session.commit() on a table whose row is replaced
AddRow_ReplacesLast(table, row) ==
    IF table = <<>> THEN <<row>> ELSE [table EXCEPT ![Len(table)] = row]

\* db_session.add(row); db_session.commit()
AddRow(table, row) == Append(table, row)

\* register_dataset: the id of the dataset of that content, registered if new
RegisterDataset ==
    /\ \E h \in ContentHashes :
          IF \E i \in DOMAIN gov_db.datasets : gov_db.datasets[i].content_hash = h
          THEN UNCHANGED gov_db
          ELSE gov_db' = [gov_db EXCEPT !.datasets = AddRow(@, [id |-> Len(@) + 1, content_hash |-> h, uploaded_at |-> clock])]
    /\ UNCHANGED <<lc, clock, storeVars, profVars, jobVars>>
    /\ UNCHANGED <<intelVars, trainVars, pipeVars, routeVars>>

\* start_training_run, with a fresh run id
StartTrainingRun ==
    /\ Len(gov_db.training_runs) < MaxTrackedRuns
    /\ \E d \in DOMAIN gov_db.datasets :
          gov_db' = [gov_db EXCEPT !.training_runs = AddRow(@, [id |-> Len(@) + 1, dataset_id |-> d, algorithm |-> "RandomForestClassifier", random_seed |-> 42])]
    /\ UNCHANGED <<lc, clock, storeVars, profVars, jobVars>>
    /\ UNCHANGED <<intelVars, trainVars, pipeVars, routeVars>>

\* the Decision row log_decision builds
DecisionRow(id, training_run_id, decision_type, chosen_option, automated, now) ==
    [id |-> id,
     training_run_id |-> training_run_id,
     decision_type |-> decision_type,
     decision_point |-> <<decision_type, " selection">>,
     chosen_option |-> chosen_option,
     automated |-> automated,
     decided_by |-> IF automated THEN "system" ELSE "human",
     decided_at |-> now]

\* log_decision
LogDecision ==
    /\ Len(gov_db.decisions) < MaxGovRows
    /\ \E r \in DOMAIN gov_db.training_runs, ty \in DecisionTypes, opt \in ChosenOptions, a \in BOOLEAN :
          gov_db' = [gov_db EXCEPT !.decisions = AddRow(@, DecisionRow(Len(@) + 1, r, ty, opt, a, clock))]
    /\ UNCHANGED <<lc, clock, storeVars, profVars, jobVars>>
    /\ UNCHANGED <<intelVars, trainVars, pipeVars, routeVars>>

\* register_model, the version generated from the models of the run
RegisterModel ==
    /\ Len(gov_db.models) < MaxGovRows
    /\ \E r \in DOMAIN gov_db.training_runs :
          LET existing_count == Cardinality({i \in DOMAIN gov_db.models : gov_db.models[i].training_run_id = r})
          IN  gov_db' = [gov_db EXCEPT !.models = AddRow(@, [id |-> Len(@) + 1, training_run_id |-> r, version |-> <<"v1.", existing_count>>])]
    /\ UNCHANGED <<lc, clock, storeVars, profVars, jobVars>>
    /\ UNCHANGED <<intelVars, trainVars, pipeVars, routeVars>>

\* log_prediction
LogPrediction ==
    /\ Len(gov_db.predictions) < MaxTrackedRuns
    /\ \E m \in DOMAIN gov_db.models :
          gov_db' = [gov_db EXCEPT !.predictions = AddRow(@, [id |-> Len(@) + 1, model_id |-> m, prediction |-> "positive"])]
    /\ UNCHANGED <<lc, clock, storeVars, profVars, jobVars>>
    /\ UNCHANGED <<intelVars, trainVars, pipeVars, routeVars>>

\* ---- MLDecisionEngine ----
ML_READINESS_THRESHOLD == 70

SMALL_DATASET_ROWS == 1000

LcRowCounts == {SMALL_DATASET_ROWS - 1, SMALL_DATASET_ROWS}

\* dtype and number of distinct values of the last column
LcTargets == {<<"object", 9>>, <<"int64", 9>>, <<"int64", 50>>}

\* numbers of object and of numeric feature columns
LcFeatures == {<<1, 0>>, <<0, 2>>}

LcQualityScores == {65, 85}

LcDatasets ==
    {[rows |-> r, target_dtype |-> t[1], target_unique |-> t[2], missing |-> m,
      object_features |-> f[1], numeric_features |-> f[2], quality_score |-> q] :
        r \in LcRowCounts, t \in LcTargets, m \in {0, 1}, f \in LcFeatures, q \in LcQualityScores}

\* df.columns[:-1] and df.columns[-1]
LcFeatureCols(data) == [i \in 1..(data.object_features + data.numeric_features) |-> <<"f", i>>]

LcTargetCol == "target"

\* _generate_dataset_hash: a digest of the shape, the column names and the head
DatasetHash(data) ==
    <<data.rows, data.object_features + data.numeric_features + 1, data.target_dtype, data.target_unique>>

\* _determine_problem_type
DetermineMLProblemType(data) ==
    IF data.target_dtype = "object" THEN "classification"
    ELSE IF data.target_unique < 10 \/ data.target_unique * 100 < 5 * data.rows
         THEN "classification"
         ELSE "regression"

\* _select_algorithm
SelectAlgorithm(data, ptype, quality_score) ==
    LET n_samples == data.rows
        n_features == data.object_features + data.numeric_features
        criteria == [dataset_size |-> n_samples, feature_count |-> n_features,
                     data_quality |-> quality_score,
                     interpretability_priority |-> n_samples < SMALL_DATASET_ROWS,
                     performance_priority |-> n_samples >= SMALL_DATASET_ROWS]
    IN  IF ptype = "classification"
        THEN IF n_samples < SMALL_DATASET_ROWS
             THEN [selected |-> "LogisticRegression", rationale |-> "Small dataset (<1000 samples) - linear model for interpretability",
                   alternatives |-> <<"RandomForestClassifier", "SVC">>, criteria |-> criteria]
             ELSE [selected |-> "RandomForestClassifier", rationale |-> "Medium/large dataset - ensemble method for robustness",
                   alternatives |-> <<"LogisticRegression", "GradientBoostingClassifier">>, criteria |-> criteria]
        ELSE IF n_samples < SMALL_DATASET_ROWS
             THEN [selected |-> "LinearRegression", rationale |-> "Small dataset (<1000 samples) - linear model for interpretability",
                   alternatives |-> <<"RandomForestRegressor", "SVR">>, criteria |-> criteria]
             ELSE [selected |-> "RandomForestRegressor", rationale |-> "Medium/large dataset - ensemble method for robustness",
                   alternatives |-> <<"LinearRegression", "GradientBoostingRegressor">>, criteria |-> criteria]

\* _determine_preprocessing
DeterminePreprocessing(data) ==
    LET object_cols == data.object_features + (IF data.target_dtype = "object" THEN 1 ELSE 0)
        numeric_cols == data.numeric_features + (IF data.target_dtype = "object" THEN 0 ELSE 1)
    IN  [steps |-> (IF data.missing > 0 THEN <<"Handle missing values (median for numeric, mode for categorical)">> ELSE <<>>)
                   \o (IF object_cols > 0 THEN <<"Label encode categorical variables">> ELSE <<>>)
                   \o (IF numeric_cols > 1 THEN <<"StandardScaler for feature normalization">> ELSE <<>>),
         feature_engineering |-> (IF object_cols > 0 THEN <<"Categorical variable encoding">> ELSE <<>>)
                   \o (IF numeric_cols > 1 THEN <<"Feature scaling/normalization">> ELSE <<>>)]

\* whether "Forest" occurs in the name of the model
IsForest(model_type) == model_type \in {"RandomForestClassifier", "RandomForestRegressor"}

\* _generate_assumptions
GenerateAssumptions(ptype, model_type) ==
    <<"Target variable is correctly labeled", "Training data is representative of production data", "Features are available at prediction time">>
    \o (IF ptype = "classification" THEN <<"Class distribution in training reflects production">> ELSE <<>>)
    \o (IF IsForest(model_type) THEN <<"Feature interactions are important for prediction">>
                                ELSE <<"Linear relationships exist between features and target">>)

\* _generate_limitations
GenerateLimitations(data, quality_score) ==
    (IF data.rows < SMALL_DATASET_ROWS THEN <<"Small dataset may limit model generalization">> ELSE <<>>)
    \o (IF quality_score < 80 THEN <<"Data quality issues may impact model performance">> ELSE <<>>)
    \o (IF data.object_features + data.numeric_features + 1 < 5 THEN <<"Limited feature set may constrain predictive power">> ELSE <<>>)
    \o <<"Model performance may degrade over time (concept drift)", "Predictions are probabilistic, not deterministic">>

\* _identify_potential_biases, on object columns of balanced values
IdentifyPotentialBiases(data) ==
    IF data.missing > 0 THEN <<"Missing data may introduce selection bias">> ELSE <<>>

\* _get_default_hyperparameters: the keyword arguments, as name-value pairs
DefaultHyperparameters(model_type) ==
    CASE model_type = "RandomForestClassifier" -> {<<"n_estimators", 100>>, <<"random_state", 42>>}
      [] model_type = "RandomForestRegressor" -> {<<"n_estimators", 100>>, <<"random_state", 42>>}
      [] model_type = "LogisticRegression" -> {<<"random_state", 42>>, <<"max_iter", 1000>>}
      [] OTHER -> {}

\* create_decision_log whose algorithm follows the minute of the clock
CreateDecisionLog_AlgorithmByTime(data, model_type, target_col, feature_cols, quality_score, dataset_hash, now) ==
    [model_id |-> <<dataset_hash, model_type, now>>,
     model_version |-> <<"v", now \div SecondsPerMinute>>,
     dataset_hash |-> dataset_hash,
     timestamp |-> now,
     problem_type |-> DetermineMLProblemType(data),
     target_column |-> target_col,
     feature_columns |-> feature_cols,
     selected_algorithm |-> IF now < SecondsPerMinute THEN "LogisticRegression" ELSE "RandomForestClassifier",
     algorithm_rationale |-> "",
     alternatives_considered |-> <<>>,
     selection_criteria |-> SelectAlgorithm(data, DetermineMLProblemType(data), quality_score).criteria,
     data_quality_score |-> quality_score,
     preprocessing_steps |-> DeterminePreprocessing(data).steps,
     feature_engineering |-> DeterminePreprocessing(data).feature_engineering,
     hyperparameters |-> DefaultHyperparameters(model_type),
     training_config |-> [test_size |-> 20, cross_validation |-> "5-fold", stratify |-> DetermineMLProblemType(data) = "classification"],
     assumptions |-> GenerateAssumptions(DetermineMLProblemType(data), model_type),
     limitations |-> GenerateLimitations(data, quality_score),
     known_biases |-> IdentifyPotentialBiases(data),
     validation_metrics |-> {},
     training_time_seconds |-> 0,
     random_seed |-> 42]

\* create_decision_log; datetime.now() is the argument now, the md5 digest of
\* the model id is kept as the triple it is taken of, test_size is in percent
CreateDecisionLog(data, model_type, target_col, feature_cols, quality_score, dataset_hash, now) ==
    LET ptype == DetermineMLProblemType(data)
        algorithm_info == SelectAlgorithm(data, ptype, quality_score)
        preprocessing == DeterminePreprocessing(data)
    IN  [model_id |-> <<dataset_hash, model_type, now>>,
         model_version |-> <<"v", now \div SecondsPerMinute>>,
         dataset_hash |-> dataset_hash,
         timestamp |-> now,
         problem_type |-> ptype,
         target_column |-> target_col,
         feature_columns |-> feature_cols,
         selected_algorithm |-> algorithm_info.selected,
         algorithm_rationale |-> algorithm_info.rationale,
         alternatives_considered |-> algorithm_info.alternatives,
         selection_criteria |-> algorithm_info.criteria,
         data_quality_score |-> quality_score,
         preprocessing_steps |-> preprocessing.steps,
         feature_engineering |-> preprocessing.feature_engineering,
         hyperparameters |-> DefaultHyperparameters(model_type),
         training_config |-> [test_size |-> 20, cross_validation |-> "5-fold", stratify |-> ptype = "classification"],
         assumptions |-> GenerateAssumptions(ptype, model_type),
         limitations |-> GenerateLimitations(data, quality_score),
         known_biases |-> IdentifyPotentialBiases(data),
         validation_metrics |-> {},
         training_time_seconds |-> 0,
         random_seed |-> 42]

\* ---- ModelLifecycleManager ----
\* the estimator _train_model constructs: its class and keyword arguments
TrainModel(algorithm) ==
    CASE algorithm = "RandomForestClassifier" -> [class |-> "RandomForestClassifier", params |-> {<<"n_estimators", 100>>, <<"random_state", 42>>}]
      [] algorithm = "RandomForestRegressor" -> [class |-> "RandomForestRegressor", params |-> {<<"n_estimators", 100>>, <<"random_state", 42>>}]
      [] algorithm = "LogisticRegression" -> [class |-> "LogisticRegression", params |-> {<<"random_state", 42>>, <<"max_iter", 1000>>}]
      [] OTHER -> [class |-> "LinearRegression", params |-> {}]

\* start_training has registered the job: training_jobs[job_id]
PendingJob(data) ==
    [pc |-> "pending", data |-> data, status |-> "PENDING", progress |-> 0,
     stage |-> "initializing", decision_log |-> NoValue, model |-> NoValue]

\* _update_status
UpdateStatus(job, status, progress, stage) ==
    [job EXCEPT !.status = status, !.progress = progress, !.stage = stage]

\* _execute_training up to the quality gate, which raises into the except
LcQualityInsufficient ==
    \E j \in DOMAIN lc :
        /\ lc[j].pc = "pending"
        /\ lc[j].data.quality_score < ML_READINESS_THRESHOLD
        /\ lc' = [lc EXCEPT ![j] = [UpdateStatus(@, "FAILED", 0, "error: Data quality insufficient") EXCEPT !.pc = "failed"]]
        /\ UNCHANGED <<gov_db, clock, storeVars, profVars, jobVars>>
        /\ UNCHANGED <<intelVars, trainVars, pipeVars, routeVars>>

\* _execute_training through decision_engine.create_decision_log
LcCreateDecisionLog ==
    \E j \in DOMAIN lc :
        /\ lc[j].pc = "pending"
        /\ lc[j].data.quality_score >= ML_READINESS_THRESHOLD
        /\ LET data == lc[j].data
               decision_log == CreateDecisionLog(data, "RandomForestClassifier", LcTargetCol, LcFeatureCols(data), data.quality_score, DatasetHash(data), clock)
           IN  lc' = [lc EXCEPT ![j] = [UpdateStatus(@, "RUNNING", 55, "creating_decision_log") EXCEPT !.pc = "logged", !.decision_log = decision_log]]
        /\ UNCHANGED <<gov_db, clock, storeVars, profVars, jobVars>>
        /\ UNCHANGED <<intelVars, trainVars, pipeVars, routeVars>>

\* _execute_training: _train_model(X, y, decision_log.selected_algorithm)
LcTrainModel ==
    \E j \in DOMAIN lc :
        /\ lc[j].pc = "logged"
        /\ lc' = [lc EXCEPT ![j] = [UpdateStatus(@, "RUNNING", 70, "training_model") EXCEPT !.pc = "trained", !.model = TrainModel(lc[j].decision_log.selected_algorithm)]]
        /\ UNCHANGED <<gov_db, clock, storeVars, profVars, jobVars>>
        /\ UNCHANGED <<intelVars, trainVars, pipeVars, routeVars>>

\* the package _save_versioned_model dumps
VersionedModelPackage(job, now) ==
    [model |-> job.model,
     model_id |-> job.decision_log.model_id,
     model_version |-> job.decision_log.model_version,
     dataset_hash |-> job.decision_log.dataset_hash,
     created_at |-> now,
     decision_log |-> job.decision_log,
     training_config |-> [algorithm |-> job.decision_log.selected_algorithm,
                          hyperparameters |-> job.decision_log.hyperparameters,
                          random_seed |-> job.decision_log.random_seed]]

\* _execute_training: _save_versioned_model and the COMPLETED status
LcSaveVersionedModel ==
    \E j \in DOMAIN lc :
        /\ lc[j].pc = "trained"
        /\ models_dir' = WriteFile(models_dir, <<"model", lc[j].decision_log.model_version, lc[j].decision_log.dataset_hash>>, VersionedModelPackage(lc[j], clock))
        /\ lc' = [lc EXCEPT ![j] = [UpdateStatus(@, "COMPLETED", 100, "completed") EXCEPT !.pc = "done"]]
        /\ UNCHANGED <<gov_db, clock, engine_runs, profVars, jobVars>>
        /\ UNCHANGED <<intelVars, trainVars, pipeVars, routeVars>>

\* two training requests, on the same file or on two files
InitLifecycle ==
    /\ IntelIdle /\ TrainIdle /\ PipelineIdle /\ RouteIdle
    /\ StoreIdle /\ ProfIdle /\ JobIdle
    /\ clock = 0
    /\ gov_db = [datasets |-> <<>>, training_runs |-> <<>>, decisions |-> <<>>, models |-> <<>>, predictions |-> <<>>]
    /\ \E d1 \in LcDatasets, d2 \in LcDatasets : lc = <<PendingJob(d1), PendingJob(d2)>>

NextLifecycle ==
    \/ LcQualityInsufficient
    \/ LcCreateDecisionLog
    \/ LcTrainModel
    \/ LcSaveVersionedModel
    \/ Tick

SpecLifecycle == InitLifecycle /\ [][NextLifecycle]_vars

\* one training request beside the calls of the governance tracker
InitDecisions ==
    /\ IntelIdle /\ TrainIdle /\ PipelineIdle /\ RouteIdle
    /\ StoreIdle /\ ProfIdle /\ JobIdle
    /\ clock = 0
    /\ gov_db = [datasets |-> <<>>, training_runs |-> <<>>, decisions |-> <<>>, models |-> <<>>, predictions |-> <<>>]
    /\ \E d \in LcDatasets : d.missing = 0 /\ d.object_features = 0 /\ lc = <<PendingJob(d)>>

NextDecisions ==
    \/ RegisterDataset
    \/ StartTrainingRun
    \/ LogDecision
    \/ RegisterModel
    \/ LogPrediction
    \/ LcQualityInsufficient
    \/ LcCreateDecisionLog
    \/ LcTrainModel
    \/ LcSaveVersionedModel
    \/ Tick

SpecDecisions == InitDecisions /\ [][NextDecisions]_vars

C24_RecordedHyperparametersUsed ==
    \A j \in DOMAIN lc :
        lc[j].model # NoValue =>
            /\ lc[j].model.class = lc[j].decision_log.selected_algorithm
            /\ lc[j].decision_log.hyperparameters = lc[j].model.params

NoName == "None"

ModelNames == {NoName, "churn_model", "sales_model"}

\* what _select_best_model may return in a run: model type and scores
BestModels ==
    {[model_type |-> m, mean_cv_score |-> c, test_score |-> c] :
        m \in {"logistic_regression", "random_forest_classifier"}, c \in {80000, 90000}}

EngineRunCount == 2

\* model_name or f"automl_model_{datetime.now().strftime('%Y%m%d_%H%M%S')}"
SaveName(model_name, now) ==
    IF model_name = NoName THEN <<"automl_model_", now>> ELSE <<model_name>>

\* the package _save_model dumps, with its timestamp
SavedPackage(best_model, now) ==
    [model_type |-> best_model.model_type,
     performance |-> [cv_score |-> best_model.mean_cv_score, test_score |-> best_model.test_score],
     timestamp |-> now]

\* train_automl up to _generate_performance_summary: the best model is known
EngineTrain ==
    \E r \in DOMAIN engine_runs :
        /\ engine_runs[r].pc = "called"
        /\ \E best \in BestModels :
              engine_runs' = [engine_runs EXCEPT ![r] = [@ EXCEPT !.pc = "trained", !.best_model = best]]
        /\ UNCHANGED <<models_dir, clock, govVars, profVars, jobVars>>
        /\ UNCHANGED <<intelVars, trainVars, pipeVars, routeVars>>

\* _save_model: joblib.dump at models_dir/<name>.joblib, and the return
EngineSaveModel ==
    \E r \in DOMAIN engine_runs :
        /\ engine_runs[r].pc = "trained"
        /\ LET model_path == SaveName(engine_runs[r].model_name, clock)
           IN  /\ models_dir' = WriteFile(models_dir, model_path, SavedPackage(engine_runs[r].best_model, clock))
               /\ engine_runs' = [engine_runs EXCEPT ![r] = [@ EXCEPT !.pc = "returned", !.model_save_path = model_path]]
        /\ UNCHANGED <<clock, govVars, profVars, jobVars>>
        /\ UNCHANGED <<intelVars, trainVars, pipeVars, routeVars>>

\* train_automl called twice on one engine, sequentially or from two threads
InitStore ==
    /\ IntelIdle /\ TrainIdle /\ PipelineIdle /\ RouteIdle
    /\ GovIdle /\ ProfIdle /\ JobIdle
    /\ clock = 0
    /\ models_dir = <<>>
    /\ engine_runs \in [1..EngineRunCount -> {[pc |-> "called", model_name |-> n, best_model |-> NoValue, model_save_path |-> <<>>] : n \in ModelNames}]

NextStore == EngineTrain \/ EngineSaveModel \/ Tick

SpecStore == InitStore /\ [][NextStore]_vars

(***************************************************************************)
(* Properties of the models directory (SpecStore)                          *)
(***************************************************************************)
\* C25: under any interleaving of training runs each run writes its artifact
\* once and the artifact is immutable afterwards: no step of any run changes
\* or removes a file already written to the models directory.
C25_ArtifactsWrittenOnce ==
    [][\A q \in DOMAIN models_dir : q \in DOMAIN models_dir' /\ models_dir'[q] = models_dir[q]]_vars

(***************************************************************************)
(* Repeated profiling of one table                                         *)
(*   backend/ml_engine/data_profiling.py (profile_dataset)                 *)
(***************************************************************************)
MaxProfileCalls == 2

\* (datetime.now() - start_time).total_seconds(), in milliseconds
ProcessingTimes == {1, 2}

\* profile_dataset that drops the duplicated rows of the frame it is given
TableAfterProfiling_DropsDuplicates(table) == [table EXCEPT !.duplicate_rows = 0]

\* the frame after profile_dataset: no statement of the call writes to df
TableAfterProfiling(table) == table

\* the DatasetProfile returned, with its processing_time_seconds
TimedDatasetProfile(table, processing_time) ==
    LET p == ProfileDatasetOf(table)
    IN  [f \in (DOMAIN p) \cup {"processing_time_seconds"} |->
            IF f = "processing_time_seconds" THEN processing_time ELSE p[f]]

\* engine.profile_dataset(df), once more
ProfileDatasetAgain ==
    /\ Len(profile_calls) < MaxProfileCalls
    /\ \E processing_time \in ProcessingTimes :
          profile_calls' = Append(profile_calls, [table |-> df, profile |-> TimedDatasetProfile(df, processing_time)])
    /\ df' = TableAfterProfiling(df)
    /\ UNCHANGED <<profile, intel, role_calls>>
    /\ UNCHANGED <<clock, govVars, storeVars, jobVars>>
    /\ UNCHANGED <<trainVars, pipeVars, routeVars>>

InitProfile ==
    /\ InputTable(df)
    /\ profile = NoValue /\ intel = NoValue /\ role_calls = <<>>
    /\ TrainIdle /\ PipelineIdle /\ RouteIdle
    /\ ExtIdle

NextProfile == ProfileDatasetAgain

SpecProfile == InitProfile /\ [][NextProfile]_vars

(***************************************************************************)
(* Properties of repeated profiling (SpecProfile)                          *)
(***************************************************************************)
\* the fields of a DatasetProfile that describe the data
DataFields(p) == (DOMAIN p) \ {"processing_time_seconds"}

MaxJobs == 2

StarterCount == 2

Managers == {"AsyncJobManager", "AsyncMLTrainer"}

Priorities == {"normal", "high"}

TerminalStatuses == {"COMPLETED", "FAILED", "CANCELLED"}

\* the progress values _process_job writes before it completes the job
ProgressStages(manager) ==
    IF manager = "AsyncJobManager" THEN <<10, 30, 60, 90>> ELSE <<25, 50, 75, 100>>

\* _get_priority_score
PriorityScore(priority) ==
    CASE priority = "low" -> 1
      [] priority = "normal" -> 5
      [] priority = "high" -> 10
      [] priority = "urgent" -> 20
      [] OTHER -> 5

\* create_job: a row of ml_jobs and a row of job_queue
CreateJob ==
    /\ mgr = "AsyncJobManager"
    /\ Len(jobs) < MaxJobs
    /\ \E priority \in Priorities :
          /\ jobs' = Append(jobs, [status |-> "PENDING", progress |-> 0, stage |-> "None", priority |-> priority])
          /\ job_queue' = job_queue \cup {[job_id |-> Len(jobs) + 1, priority_score |-> PriorityScore(priority), queued_at |-> Len(jobs) + 1]}
    /\ UNCHANGED <<mgr, workers, starters, running>>
    /\ UNCHANGED <<clock, govVars, storeVars, profVars>>
    /\ UNCHANGED <<intelVars, trainVars, pipeVars, routeVars>>

\* submit_training_job / PersistentJobQueue.enqueue: a row of training_runs
Enqueue ==
    /\ mgr = "AsyncMLTrainer"
    /\ Len(jobs) < MaxJobs
    /\ jobs' = Append(jobs, [status |-> "PENDING", progress |-> 0, stage |-> "None", priority |-> "normal"])
    /\ UNCHANGED <<mgr, job_queue, workers, starters, running>>
    /\ UNCHANGED <<clock, govVars, storeVars, profVars>>
    /\ UNCHANGED <<intelVars, trainVars, pipeVars, routeVars>>

\* cancel_job on a job that is pending or running; otherwise it returns False
CancelJob ==
    /\ mgr = "AsyncJobManager"
    /\ \E j \in DOMAIN jobs :
          /\ jobs[j].status \in {"PENDING", "RUNNING"}
          /\ jobs' = [jobs EXCEPT ![j].status = "CANCELLED"]
    /\ UNCHANGED <<mgr, job_queue, workers, starters, running>>
    /\ UNCHANGED <<clock, govVars, storeVars, profVars>>
    /\ UNCHANGED <<intelVars, trainVars, pipeVars, routeVars>>

\* start_worker: the test "if not self.running"
StartWorkerCheck ==
    \E c \in DOMAIN starters :
        /\ starters[c] = "called"
        /\ starters' = [starters EXCEPT ![c] = IF running THEN "returned" ELSE "starting"]
        /\ UNCHANGED <<mgr, jobs, job_queue, workers, running>>
        /\ UNCHANGED <<clock, govVars, storeVars, profVars>>
        /\ UNCHANGED <<intelVars, trainVars, pipeVars, routeVars>>

\* start_worker: self.running = True and the thread of _worker_loop started
StartWorkerThread ==
    \E c \in DOMAIN starters :
        /\ starters[c] = "starting"
        /\ running' = TRUE
        /\ workers' = Append(workers, [pc |-> "loop", job_id |-> 0, stage |-> 0, processed |-> <<>>])
        /\ starters' = [starters EXCEPT ![c] = "returned"]
        /\ UNCHANGED <<mgr, jobs, job_queue>>
        /\ UNCHANGED <<clock, govVars, storeVars, profVars>>
        /\ UNCHANGED <<intelVars, trainVars, pipeVars, routeVars>>

\* the query of _get_next_job: queue rows of pending jobs, best first
NextQueueEntries(job_rows, queue) ==
    {e \in queue :
        /\ job_rows[e.job_id].status = "PENDING"
        /\ \A o \in queue :
              job_rows[o.job_id].status = "PENDING" =>
                  \/ o.priority_score < e.priority_score
                  \/ (o.priority_score = e.priority_score /\ o.queued_at >= e.queued_at)}

\* the worker takes the job it was handed into _process_job
TakeJob(worker, job_id) ==
    [worker EXCEPT !.pc = "processing", !.job_id = job_id, !.stage = 0, !.processed = Append(@, job_id)]

\* _worker_loop: _get_next_job, under the lock, finding a job
GetNextJob ==
    \E w \in DOMAIN workers :
        /\ mgr = "AsyncJobManager"
        /\ running
        /\ workers[w].pc = "loop"
        /\ \E e \in NextQueueEntries(jobs, job_queue) :
              /\ jobs' = [jobs EXCEPT ![e.job_id].status = "RUNNING"]
              /\ job_queue' = job_queue \ {e}
              /\ workers' = [workers EXCEPT ![w] = TakeJob(@, e.job_id)]
        /\ UNCHANGED <<mgr, starters, running>>
        /\ UNCHANGED <<clock, govVars, storeVars, profVars>>
        /\ UNCHANGED <<intelVars, trainVars, pipeVars, routeVars>>

\* the rows TrainingRun.query.filter_by(status=...).first() may return, were
\* the status not filtered
PendingRuns_AnyStatus(job_rows) == DOMAIN job_rows

\* the rows TrainingRun.query.filter_by(status=PENDING).first() may return
PendingRuns(job_rows) == {j \in DOMAIN job_rows : job_rows[j].status = "PENDING"}

\* AsyncMLTrainer._worker_loop: job_queue.get_next_job, under the lock
TrainerGetNextJob ==
    \E w \in DOMAIN workers :
        /\ mgr = "AsyncMLTrainer"
        /\ running
        /\ workers[w].pc = "loop"
        /\ \E j \in PendingRuns(jobs) :
              /\ jobs' = [jobs EXCEPT ![j].status = "RUNNING"]
              /\ workers' = [workers EXCEPT ![w] = TakeJob(@, j)]
        /\ UNCHANGED <<mgr, job_queue, starters, running>>
        /\ UNCHANGED <<clock, govVars, storeVars, profVars>>
        /\ UNCHANGED <<intelVars, trainVars, pipeVars, routeVars>>

\* _process_job: one _update_job_progress / update_job(progress=, stage=)
UpdateJobProgress ==
    \E w \in DOMAIN workers :
        /\ workers[w].pc = "processing"
        /\ workers[w].stage < Len(ProgressStages(mgr))
        /\ jobs' = [jobs EXCEPT ![workers[w].job_id] =
                       [@ EXCEPT !.progress = ProgressStages(mgr)[workers[w].stage + 1],
                                 !.stage = <<"stage", workers[w].stage + 1>>,
                                 !.status = IF mgr = "AsyncMLTrainer" /\ workers[w].stage = 0 THEN "RUNNING" ELSE @]]
        /\ workers' = [workers EXCEPT ![w].stage = @ + 1]
        /\ UNCHANGED <<mgr, job_queue, starters, running>>
        /\ UNCHANGED <<clock, govVars, storeVars, profVars>>
        /\ UNCHANGED <<intelVars, trainVars, pipeVars, routeVars>>

\* _process_job: job.status = COMPLETED / update_job(status=COMPLETED)
CompleteJob ==
    \E w \in DOMAIN workers :
        /\ workers[w].pc = "processing"
        /\ workers[w].stage = Len(ProgressStages(mgr))
        /\ jobs' = [jobs EXCEPT ![workers[w].job_id] = [@ EXCEPT !.status = "COMPLETED", !.progress = 100, !.stage = "Completed"]]
        /\ workers' = [workers EXCEPT ![w] = [@ EXCEPT !.pc = "loop", !.job_id = 0, !.stage = 0]]
        /\ UNCHANGED <<mgr, job_queue, starters, running>>
        /\ UNCHANGED <<clock, govVars, storeVars, profVars>>
        /\ UNCHANGED <<intelVars, trainVars, pipeVars, routeVars>>

\* _process_job: a statement of the try block raises, the except marks FAILED
FailJob ==
    \E w \in DOMAIN workers :
        /\ workers[w].pc = "processing"
        /\ jobs' = [jobs EXCEPT ![workers[w].job_id].status = "FAILED"]
        /\ workers' = [workers EXCEPT ![w] = [@ EXCEPT !.pc = "loop", !.job_id = 0, !.stage = 0]]
        /\ UNCHANGED <<mgr, job_queue, starters, running>>
        /\ UNCHANGED <<clock, govVars, storeVars, profVars>>
        /\ UNCHANGED <<intelVars, trainVars, pipeVars, routeVars>>

\* a manager constructed, start_worker about to be called by each caller
InitJobs ==
    /\ IntelIdle /\ TrainIdle /\ PipelineIdle /\ RouteIdle
    /\ clock = 0 /\ GovIdle /\ StoreIdle /\ ProfIdle
    /\ mgr \in Managers
    /\ jobs = <<>>
    /\ job_queue = {}
    /\ workers = <<>>
    /\ starters = [c \in 1..StarterCount |-> "called"]
    /\ running = FALSE

NextJobs ==
    \/ CreateJob
    \/ Enqueue
    \/ CancelJob
    \/ StartWorkerCheck
    \/ StartWorkerThread
    \/ GetNextJob
    \/ TrainerGetNextJob
    \/ UpdateJobProgress
    \/ CompleteJob
    \/ FailJob

SpecJobs == InitJobs /\ [][NextJobs]_vars

(***************************************************************************)
(* Properties of the job managers (SpecJobs)                               *)
(***************************************************************************)
\* C29: in AsyncJobManager the terminal states are absorbing: a job whose
\* status is CANCELLED, COMPLETED or FAILED has the same status after every
\* step, whatever the interleaving of cancel_job with the worker.
C29_TerminalStatesAbsorbing ==
    [][\A j \in DOMAIN jobs :
          (mgr = "AsyncJobManager" /\ jobs[j].status \in TerminalStatuses) => jobs'[j].status = jobs[j].status]_vars

\* the pairs (worker, position) at which job j was handed to _process_job
Claims(j) == {wi \in (DOMAIN workers) \X (1..MaxJobs) : wi[2] \in DOMAIN workers[wi[1]].processed /\ workers[wi[1]].processed[wi[2]] = j}

\* C30: each submitted job is claimed at most once: over all the worker
\* threads, however many start_worker started, a job id is handed to
\* _process_job at most once, and at most one worker is processing it.
C30_ClaimedAtMostOnce ==
    \A j \in DOMAIN jobs :
        /\ Cardinality(Claims(j)) <= 1
        /\ Cardinality({w \in DOMAIN workers : workers[w].pc = "processing" /\ workers[w].job_id = j}) <= 1

\* two worker threads, started by two racing start_worker calls, each having
\* processed one of two jobs
C30_Witness ==
    /\ Len(workers) = 2
    /\ Len(jobs) = 2
    /\ \A w \in DOMAIN workers : Len(workers[w].processed) = 1
    /\ \A j \in DOMAIN jobs : jobs[j].status = "COMPLETED"

====
